---- MODULE Spec2Model ----
(***************************************************************************)
(* Model of the schema/link engine of package named: LoadLink builds a     *)
(* schema for a struct type by a reflective walk (collectFields) and       *)
(* stores it in cachedSchemaMap; Link / LinkWithPath write the schema's    *)
(* path pointers into an instance at base address + offset; the accessors  *)
(* of Field[T] read the path back.                                         *)
(*                                                                         *)
(* Strings are sequences of one-character strings, so that splitting a tag *)
(* at "," and joining a path with a separator are computed, not assumed.   *)
(* Memory is word-addressed by byte offset (8-byte words); a pointer to a  *)
(* path object is its index in heap, 0 is nil.                             *)
(***************************************************************************)
EXTENDS Integers, Sequences, FiniteSets, TLC

(* ------------------------------------------------------------------ *)
(* Bounds                                                              *)
(* ------------------------------------------------------------------ *)
\* number of schema builds (LoadLink calls on struct types) in one run
MaxLoads == 2
\* number of goroutines calling into the package at the same time
NumThreads == 2

(* ------------------------------------------------------------------ *)
(* Strings                                                             *)
(* ------------------------------------------------------------------ *)
Comma == ","
Dash == <<"-">>
EmptyStr == <<>>
UpperCase == {"A", "B", "C", "D", "E", "F", "G", "H", "I", "J", "K", "L", "M",
              "N", "O", "P", "Q", "R", "S", "T", "U", "V", "W", "X", "Y", "Z"}

\* strings.Split(s, sep) for a one-character separator: the components
\* of s between occurrences of sep (always at least one component).
RECURSIVE SplitFrom(_, _, _, _)
SplitFrom(s, sep, i, cur) ==
    IF i > Len(s) THEN <<cur>>
    ELSE IF s[i] = sep THEN <<cur>> \o SplitFrom(s, sep, i + 1, <<>>)
    ELSE SplitFrom(s, sep, i + 1, Append(cur, s[i]))

Split(s, sep) == SplitFrom(s, sep, 1, <<>>)

\* reflect.StructTag.Get: the value stored under key, "" when the key
\* is absent. A tag is the sequence of its key:"value" pairs.
RECURSIVE TagGetFrom(_, _, _)
TagGetFrom(tag, key, i) ==
    IF i > Len(tag) THEN EmptyStr
    ELSE IF tag[i].key = key THEN tag[i].val
    ELSE TagGetFrom(tag, key, i + 1)

TagGet(tag, key) == TagGetFrom(tag, key, 1)

(* ------------------------------------------------------------------ *)
(* The type universe: the declarations the callers instantiate the     *)
(* generic functions with.                                             *)
(* ------------------------------------------------------------------ *)
NoTag == <<>>
JsonTag(v) == <<[key |-> "json", val |-> v]>>
DbTag(v) == <<[key |-> "db", val |-> v]>>

SF(n, ty, tg) == [name |-> n, type |-> ty, tag |-> tg]

s_path == <<"p", "a", "t", "h">>
s_parentPath == <<"p", "a", "r", "e", "n", "t", "P", "a", "t", "h">>
s_Value == <<"V", "a", "l", "u", "e">>
s_omitzero == <<"o", "m", "i", "t", "z", "e", "r", "o">>

\* variant: Value is declared first
Wrapper_valueFirst(v) == <<SF(s_Value, v, NoTag),
                           SF(s_path, "ptr_slice_string", NoTag),
                           SF(s_parentPath, "ptr_slice_string", NoTag)>>

\* Field[T] of linker.go, a path pointer and the Value, at value type v
Wrapper1(v) == <<SF(s_path, "ptr_slice_string", NoTag),
                 SF(s_Value, v, NoTag)>>

\* Field[T] / FieldSlice[T,E] instantiated at value type v
Wrapper(v) == <<SF(s_path, "ptr_slice_string", NoTag),
                SF(s_parentPath, "ptr_slice_string", NoTag),
                SF(s_Value, v, NoTag)>>

StructTypes == {"Simple", "Level1", "Level2", "Level3", "TwinA", "TwinB",
                "Inner", "Plain", "Vals", "Sample", "Holder",
                "Field_int", "Field_string", "Field_Level2", "Field_Level3",
                "Field_Inner", "FieldSlice_int", "FieldSlice_Inner",
                "fieldHeader",
                "Lazy", "LazyIn", "Field1_int", "Field1_string",
                "Field1_LazyIn"}

TypeNames == <<"int", "string", "iface", "ptr_Simple", "slice_int",
               "ptr_slice_string",
               "Simple", "Level1", "Level2", "Level3", "TwinA", "TwinB",
               "Inner",
               "Field_int", "Field_string", "Field_Level2", "Field_Level3",
               "Field_Inner", "Plain", "Vals", "FieldSlice_int", "Sample",
               "ptr_Inner", "slice_Inner", "FieldSlice_Inner", "Holder",
               "fieldHeader",
               "Lazy", "LazyIn", "Field1_int", "Field1_string",
               "Field1_LazyIn">>

\* reflect.Type.Kind
Kind(t) ==
    IF t \in StructTypes THEN "struct"
    ELSE CASE t = "int" -> "int"
           [] t = "string" -> "string"
           [] t = "iface" -> "interface"
           [] t = "slice_int" -> "slice"
           [] t = "slice_Inner" -> "slice"
           [] OTHER -> "ptr"

\* the declared fields of a struct type, in declaration order
Fields(t) ==
    CASE t = "Simple" ->
           <<SF(<<"A">>, "Field_int", JsonTag(<<"a">>)),
             SF(<<"B">>, "string", JsonTag(<<"b">>)),
             SF(<<"F">>, "Field_string",
                JsonTag(<<"f", ",">> \o s_omitzero) \o DbTag(Dash)),
             SF(<<"Z">>, "Field_int", JsonTag(<<",">> \o s_omitzero)),
             SF(<<"Y">>, "Field_Inner", JsonTag(Dash) \o DbTag(<<"y">>)),
             SF(<<"J">>, "Field_int", NoTag),
             SF(<<"m">>, "Field_int", JsonTag(<<"m">>))>>
      [] t = "Level1" ->
           <<SF(<<"T", "o", "p">>, "Field_Level2", JsonTag(<<"t", "o", "p">>))>>
      [] t = "Level2" ->
           <<SF(<<"M", "i", "d">>, "Field_Level3", JsonTag(<<"m", "i", "d">>))>>
      [] t = "Level3" ->
           <<SF(<<"D", "e", "e", "p">>, "Field_int",
                JsonTag(<<"d", "e", "e", "p">>))>>
      [] t = "TwinA" -> <<SF(<<"X">>, "Field_int", JsonTag(<<"p">>))>>
      [] t = "TwinB" -> <<SF(<<"X">>, "Field_int", JsonTag(<<"q">>))>>
      [] t = "Inner" -> <<SF(<<"A">>, "Field_int", JsonTag(<<"a">>))>>
      [] t = "Plain" ->
           <<SF(<<"B">>, "string", JsonTag(<<"b">>)),
             SF(<<"H">>, "Field_int", JsonTag(Dash))>>
      [] t = "Vals" ->
           <<SF(<<"I">>, "Field_int", JsonTag(<<"i">>)),
             SF(<<"S">>, "Field_string", JsonTag(<<"s">>)),
             SF(<<"L">>, "FieldSlice_int", JsonTag(<<"l">>))>>
      [] t = "Sample" ->
           <<SF(<<"F", "1">>, "Field_int",
                JsonTag(<<"f", "1", ",">> \o s_omitzero)),
             SF(<<"F", "2">>, "Field_string", JsonTag(<<"f", "2">>))>>
      [] t = "Holder" ->
           <<SF(<<"N">>, "FieldSlice_Inner", JsonTag(<<"n">>)),
             SF(<<"P">>, "Inner", JsonTag(<<"p">>)),
             SF(<<"Q">>, "ptr_Inner", JsonTag(<<"q">>)),
             SF(<<"R">>, "slice_Inner", JsonTag(<<"r">>)),
             SF(<<"W">>, "Field_Inner", JsonTag(<<"w">>)),
             SF(<<"X">>, "Field_int", JsonTag(Dash))>>
      [] t = "FieldSlice_Inner" -> Wrapper("slice_Inner")
      [] t = "fieldHeader" ->
           <<SF(s_path, "ptr_slice_string", NoTag),
             SF(s_parentPath, "ptr_slice_string", NoTag)>>
      [] t = "Lazy" ->
           <<SF(<<"A">>, "Field1_int", JsonTag(<<"a">>) \o DbTag(<<"x">>)),
             SF(<<"B">>, "Field1_LazyIn", JsonTag(<<"b">>)),
             SF(<<"C">>, "Field1_int", DbTag(Dash))>>
      [] t = "LazyIn" ->
           <<SF(<<"D">>, "Field1_string", JsonTag(<<"d">>) \o DbTag(<<"y">>))>>
      [] t = "Field1_int" -> Wrapper1("int")
      [] t = "Field1_string" -> Wrapper1("string")
      [] t = "Field1_LazyIn" -> Wrapper1("LazyIn")
      [] t = "Field_int" -> Wrapper("int")
      [] t = "Field_string" -> Wrapper("string")
      [] t = "Field_Level2" -> Wrapper("Level2")
      [] t = "Field_Level3" -> Wrapper("Level3")
      [] t = "Field_Inner" -> Wrapper("Inner")
      [] t = "FieldSlice_int" -> Wrapper("slice_int")
      [] OTHER -> <<>>

\* reflect.Type.NumField
NumField(t) == Len(Fields(t))

\* unsafe.Sizeof on a 64-bit target; every type here is 8-byte aligned
RECURSIVE SizeofRec(_)
RECURSIVE SizeUpTo(_, _)
SizeUpTo(t, n) ==
    IF n = 0 THEN 0 ELSE SizeUpTo(t, n - 1) + SizeofRec(Fields(t)[n].type)

SizeofRec(t) ==
    IF Kind(t) = "struct" THEN SizeUpTo(t, NumField(t))
    ELSE CASE Kind(t) = "string" -> 16
           [] Kind(t) = "interface" -> 16
           [] Kind(t) = "slice" -> 24
           [] OTHER -> 8

\* the layout the compiler fixes once: size of every type, and for every
\* struct type its fields with their byte offsets
SizeTable == [k \in 1..Len(TypeNames) |-> SizeofRec(TypeNames[k])]

TypeIndexTable ==
    [t \in {TypeNames[k] : k \in 1..Len(TypeNames)} |->
       CHOOSE k \in 1..Len(TypeNames) : TypeNames[k] = t]

TypeIndex(t) == TypeIndexTable[t]

Sizeof(t) == SizeTable[TypeIndex(t)]

FieldTable ==
    [k \in 1..Len(TypeNames) |->
       [i \in 1..NumField(TypeNames[k]) |->
          [name |-> Fields(TypeNames[k])[i].name,
           type |-> Fields(TypeNames[k])[i].type,
           tag |-> Fields(TypeNames[k])[i].tag,
           offset |-> SizeUpTo(TypeNames[k], i - 1)]]]

\* reflect.Type.Field(i) (1-based here): name, type, tag and byte offset
StructField(t, i) == FieldTable[TypeIndex(t)][i]

\* reflect.StructField.IsExported
IsExported(field) == field.name[1] \in UpperCase

(* ------------------------------------------------------------------ *)
(* Callers: the instances they construct and the arguments they pass   *)
(* ------------------------------------------------------------------ *)
TagKeys == {"json", "db"}

\* type arguments of LoadLink[T]
LoadTypes == {"Simple", "Level1", "TwinA", "TwinB",
              "int", "ptr_Simple", "slice_int", "iface"}

\* the struct values the callers declare: instance number -> its type.
\* Instances 1..4 belong to the sequential scenario, 5..7 to the scenario
\* with two values of one type and a type without matching fields, 8 to
\* the scenario that assigns Values, 9..10 to the concurrent scenario,
\* 11..12 to the scenario that marshals and unmarshals, 13..15 to the
\* scenario with nested, referenced and directly linked inner structs,
\* 16..17 to the callers of the lazy linker of linker.go.
InstType == <<"Simple", "Level1", "TwinA", "TwinB",
              "TwinA", "TwinA", "Plain",
              "Vals",
              "Level1", "Level1",
              "Sample", "Vals",
              "Level1", "Holder", "Inner",
              "Lazy", "Lazy">>
AllInsts == 1..Len(InstType)
Insts == 1..4
PairInsts == 5..7
ValueInsts == {8}
ConcInsts == 9..10
MarshalInsts == 11..12
NestInsts == 13..15
LazyInsts == 16..17

\* type arguments of Link[T] / LinkWithPath[T]
LinkTypes == {"Simple", "Level1", "Level2", "Level3", "TwinA", "TwinB",
              "Inner", "Plain", "Vals", "Sample", "Holder"}

\* prefix paths handed to LinkWithPath
Prefixes == {<<>>, <<<<"l", "1">>, <<"l", "2">>>>}

\* every struct-typed object lying inside an object of type t that
\* starts at byte offset base: <<type, offset>> pairs, t itself included
RECURSIVE SubObjects(_, _)
SubObjects(t, base) ==
    {<<t, base>>} \cup
    UNION {SubObjects(StructField(t, k).type, base + StructField(t, k).offset) :
             k \in {j \in 1..NumField(t) : Kind(StructField(t, j).type) = "struct"}}

\* the *T values a caller can form: <<T, instance, offset>> for every
\* address inside an instance at which a T lives
LocsOf(is) ==
    UNION {{<<o[1], i, o[2]>> :
              o \in {q \in SubObjects(InstType[i], 0) : q[1] \in LinkTypes}} :
           i \in is}

AllLocs == LocsOf(Insts)
PairLocs == LocsOf(PairInsts)
ValueLocs == LocsOf(ValueInsts)
ConcLocs == LocsOf(ConcInsts)
MarshalLocs == LocsOf(MarshalInsts)
NestLocs == LocsOf(NestInsts)

\* type arguments of the lazy Link[T](s, tagKey) and the *T values its
\* callers form
LazyTypes == {"Lazy", "LazyIn", "int"}
LazyLocs ==
    UNION {{<<o[1], i, o[2]>> :
              o \in {q \in SubObjects(InstType[i], 0) \cup
                              {<<"int", StructField("Field1_int", 2).offset>>} :
                        q[1] \in LazyTypes}} :
           i \in LazyInsts}
Locs == LocsOf(AllInsts)

Words(t) == {o \in 0..(Sizeof(t) - 8) : o % 8 = 0}

(* ------------------------------------------------------------------ *)
(* State                                                               *)
(* ------------------------------------------------------------------ *)
VARIABLES cachedSchemaMap, heap, mem, last, loads, threads, writers,
          genericSchemaCache

vars == <<cachedSchemaMap, heap, mem, last, loads, threads, writers,
          genericSchemaCache>>

\* the part of the state that the sequential callers of LoadLink and Link
\* leave alone: the position of every goroutine inside its call, the
\* goroutines that are inside an assignment to the map cachedSchemaMap,
\* and the cache of the lazy linker of linker.go
conc == <<threads, writers, genericSchemaCache>>

Threads == 1..NumThreads

\* nil pointer
Nil == 0

\* byte offsets of the slots of fieldHeader
HeaderPath == 0
HeaderParentPath == 8

\* variant: types are told apart by their layout only
TypeID_byLayout(t) == Sizeof(t)

\* the identity of *T's type descriptor, the key of cachedSchemaMap
TypeID(t) == TypeIndex(t)

NoCall == [op |-> "none", typ |-> "none", key |-> "none", inst |-> 0,
           base |-> 0, prefix |-> <<>>, relink |-> FALSE, ret |-> "none",
           out |-> <<>>]

\* the zero value of schema
ZeroSchema == [fields |-> <<>>, TagKey |-> ""]

\* a goroutine outside any call
Idle == [pc |-> "idle", op |-> "none", typ |-> "none", key |-> "none",
         inst |-> 0, sch |-> ZeroSchema, k |-> 0,
         raced |-> {}, quiet |-> FALSE]

Init ==
    /\ threads = [t \in Threads |-> Idle]
    /\ writers = {}
    /\ cachedSchemaMap = <<>>
    /\ genericSchemaCache = <<>>
    /\ heap = <<>>
    /\ mem = [i \in AllInsts |-> [o \in Words(InstType[i]) |-> 0]]
    /\ last = NoCall
    /\ loads = 0

(* ------------------------------------------------------------------ *)
(* Schema builder                                                      *)
(* ------------------------------------------------------------------ *)
\* sliceStringPtrType
SliceStringPtrType == "ptr_slice_string"

\* variant: the "-" guard is missing
skipField_noDashCheck(field, tagKey) == ~IsExported(field)

\* variant: the visibility guard is missing
skipField_noExportCheck(field, tagKey) ==
    Split(TagGet(field.tag, tagKey), Comma)[1] = Dash

\* the guards at the top of the loop body: unexported fields and fields
\* whose tag starts with "-" are skipped
skipField(field, tagKey) ==
    \/ ~IsExported(field)
    \/ Split(TagGet(field.tag, tagKey), Comma)[1] = Dash

\* variant: every struct-typed field is taken for a wrapper
isFieldPattern_anyStruct(field) ==
    /\ Kind(field.type) = "struct"
    /\ NumField(field.type) > 0

\* the Field[T] pattern: a struct whose first field is path *[]string
isFieldPattern(field) ==
    /\ Kind(field.type) = "struct"
    /\ NumField(field.type) > 0
    /\ StructField(field.type, 1).type = SliceStringPtrType
    /\ StructField(field.type, 1).name = s_path

\* variant: no fall-back to the declared name
segmentName_noFallback(field, tagKey) ==
    Split(TagGet(field.tag, tagKey), Comma)[1]

\* n: the tag value before the first comma, the field name when empty
segmentName(field, tagKey) ==
    LET n == Split(TagGet(field.tag, tagKey), Comma)[1]
    IN IF n = EmptyStr THEN field.name ELSE n

\* variant: the new segment is put in front of the parent path
buildPath_reversed(parentPath, n) == <<n>> \o parentPath

\* variant: the parent path is dropped
buildPath_leafOnly(parentPath, n) == <<n>>

\* currentPath: a fresh slice holding parentPath followed by n
buildPath(parentPath, n) ==
    IF Len(parentPath) > 0 THEN Append(parentPath, n) ELSE <<n>>

\* the check that Value (field index 2 of the wrapper) is a struct
valueIsStruct(field) ==
    /\ NumField(field.type) >= 3
    /\ StructField(field.type, 3).name = s_Value
    /\ Kind(StructField(field.type, 3).type) = "struct"

\* variant: the descriptors of a nested struct come after those of all
\* the siblings of its wrapper field
RECURSIVE collectFields_nestedLast(_, _, _, _, _, _)
collectFields_nestedLast(tVal, tagKey, baseOffset, parentPath, acc, i) ==
    IF i > NumField(tVal) THEN acc
    ELSE
      LET field == StructField(tVal, i)
          currentPath == buildPath(parentPath, segmentName(field, tagKey))
          pathPtr == Len(acc.heap) + 1
          acc1 == [heap |-> Append(acc.heap, currentPath),
                   fields |-> Append(acc.fields,
                                     [pathPtr |-> pathPtr,
                                      offset |-> baseOffset + field.offset])]
          valueField == StructField(field.type, 3)
          rest == collectFields_nestedLast(tVal, tagKey, baseOffset,
                                           parentPath, acc1, i + 1)
      IN IF skipField(field, tagKey) \/ ~isFieldPattern(field) THEN
             collectFields_nestedLast(tVal, tagKey, baseOffset, parentPath,
                                      acc, i + 1)
         ELSE IF valueIsStruct(field) THEN
             collectFields_nestedLast(valueField.type, tagKey,
                                      baseOffset + field.offset + valueField.offset,
                                      currentPath, rest, 1)
         ELSE rest

\* variant: the nested walk starts at the wrapper, not at its Value
RECURSIVE collectFields_noValueOffset(_, _, _, _, _, _)
collectFields_noValueOffset(tVal, tagKey, baseOffset, parentPath, acc, i) ==
    IF i > NumField(tVal) THEN acc
    ELSE
      LET field == StructField(tVal, i)
          currentPath == buildPath(parentPath, segmentName(field, tagKey))
          pathPtr == Len(acc.heap) + 1
          acc1 == [heap |-> Append(acc.heap, currentPath),
                   fields |-> Append(acc.fields,
                                     [pathPtr |-> pathPtr,
                                      offset |-> baseOffset + field.offset])]
          valueField == StructField(field.type, 3)
          acc2 ==
              IF valueIsStruct(field)
              THEN collectFields_noValueOffset(valueField.type, tagKey,
                                               baseOffset + field.offset,
                                               currentPath, acc1, 1)
              ELSE acc1
      IN IF skipField(field, tagKey) THEN
             collectFields_noValueOffset(tVal, tagKey, baseOffset, parentPath,
                                         acc, i + 1)
         ELSE IF isFieldPattern(field) THEN
             collectFields_noValueOffset(tVal, tagKey, baseOffset, parentPath,
                                         acc2, i + 1)
         ELSE
             collectFields_noValueOffset(tVal, tagKey, baseOffset, parentPath,
                                         acc, i + 1)

\* collectFields: the loop body for field i (1-based), then the rest of
\* the loop. acc carries *fields and the heap on which new([]string)
\* allocates the path object.
RECURSIVE collectFields(_, _, _, _, _, _)
collectFields(tVal, tagKey, baseOffset, parentPath, acc, i) ==
    IF i > NumField(tVal) THEN acc
    ELSE
      LET field == StructField(tVal, i)
          currentPath == buildPath(parentPath, segmentName(field, tagKey))
          pathPtr == Len(acc.heap) + 1
          acc1 == [heap |-> Append(acc.heap, currentPath),
                   fields |-> Append(acc.fields,
                                     [pathPtr |-> pathPtr,
                                      offset |-> baseOffset + field.offset])]
          valueField == StructField(field.type, 3)
          acc2 ==
              IF valueIsStruct(field)
              THEN collectFields(valueField.type, tagKey,
                                 baseOffset + field.offset + valueField.offset,
                                 currentPath, acc1, 1)
              ELSE acc1
      IN IF skipField(field, tagKey) THEN
             collectFields(tVal, tagKey, baseOffset, parentPath, acc, i + 1)
         ELSE IF isFieldPattern(field) THEN
             collectFields(tVal, tagKey, baseOffset, parentPath, acc2, i + 1)
         ELSE
             collectFields(tVal, tagKey, baseOffset, parentPath, acc, i + 1)

\* reflect.TypeOf(zero) for var zero T: nil for an interface type
TypeOfZero(t) == IF Kind(t) = "interface" THEN "nil" ELSE t

\* LoadLink[T](tagKey)
LoadLink(T, tagKey) ==
    /\ last.ret # "panic"
    /\ LET tVal == TypeOfZero(T)
           call == [NoCall EXCEPT !.op = "LoadLink", !.typ = T, !.key = tagKey]
       IN IF tVal = "nil" THEN
              \* tVal.Kind() on a nil reflect.Type
              /\ last' = [call EXCEPT !.ret = "panic"]
              /\ UNCHANGED <<cachedSchemaMap, heap, mem, loads, conc>>
          ELSE IF Kind(tVal) # "struct" THEN
              /\ last' = [call EXCEPT !.ret = "error"]
              /\ UNCHANGED <<cachedSchemaMap, heap, mem, loads, conc>>
          ELSE
              /\ loads < MaxLoads
              /\ LET built == collectFields(tVal, tagKey, 0, <<>>,
                                            [heap |-> heap, fields |-> <<>>], 1)
                     sch == [fields |-> built.fields, TagKey |-> tagKey]
                     typeID == TypeID(T)
                 IN /\ heap' = built.heap
                    /\ cachedSchemaMap' =
                         [k \in DOMAIN cachedSchemaMap \cup {typeID} |->
                            IF k = typeID THEN sch ELSE cachedSchemaMap[k]]
              /\ loads' = loads + 1
              /\ last' = [call EXCEPT !.ret = "nil"]
              /\ UNCHANGED <<mem, conc>>

(* ------------------------------------------------------------------ *)
(* Linker                                                              *)
(* ------------------------------------------------------------------ *)
\* the T at offset base of instance inst holds, in every field of the
\* schema now cached for T, that schema's path pointer: it was linked
\* after the latest registration of T
Linked(T, inst, base) ==
    /\ TypeID(T) \in DOMAIN cachedSchemaMap
    /\ \A k \in 1..Len(cachedSchemaMap[TypeID(T)].fields) :
          mem[inst][base + cachedSchemaMap[TypeID(T)].fields[k].offset] =
              cachedSchemaMap[TypeID(T)].fields[k].pathPtr

\* variant: the previous path is kept as the parent path
RECURSIVE linkFields_keepOld(_, _, _, _)
linkFields_keepOld(m, ptr, fields, k) ==
    IF k > Len(fields) THEN m
    ELSE linkFields_keepOld(
            [m EXCEPT ![ptr + fields[k].offset + HeaderParentPath] =
                          m[ptr + fields[k].offset + HeaderPath],
                      ![ptr + fields[k].offset + HeaderPath] =
                          fields[k].pathPtr],
            ptr, fields, k + 1)

\* variant: a path slot that already holds a path is left alone
RECURSIVE linkFields_keepFirst(_, _, _, _)
linkFields_keepFirst(m, ptr, fields, k) ==
    IF k > Len(fields) THEN m
    ELSE linkFields_keepFirst(
            IF m[ptr + fields[k].offset + HeaderPath] # Nil THEN m
            ELSE [m EXCEPT ![ptr + fields[k].offset + HeaderPath] =
                               fields[k].pathPtr],
            ptr, fields, k + 1)

\* the loop of Link: for each schema field in order, store field.pathPtr
\* through the fieldHeader view at ptr + field.offset
RECURSIVE linkFields(_, _, _, _)
linkFields(m, ptr, fields, k) ==
    IF k > Len(fields) THEN m
    ELSE linkFields([m EXCEPT ![ptr + fields[k].offset + HeaderPath] =
                                  fields[k].pathPtr],
                    ptr, fields, k + 1)

\* variant: a missing schema is built and cached on the spot
Link_lazyBuild(T, inst, base) ==
    /\ last.ret # "panic"
    /\ <<T, inst, base>> \in Locs
    /\ LET typeID == TypeID(T)
           call == [NoCall EXCEPT !.op = "Link", !.typ = T, !.inst = inst,
                                  !.base = base,
                                  !.relink = Linked(T, inst, base)]
           built == collectFields(T, "json", 0, <<>>,
                                  [heap |-> heap, fields |-> <<>>], 1)
           sch == IF typeID \in DOMAIN cachedSchemaMap
                  THEN cachedSchemaMap[typeID]
                  ELSE [fields |-> built.fields, TagKey |-> "json"]
       IN /\ typeID \notin DOMAIN cachedSchemaMap => loads < MaxLoads
          /\ mem' = [mem EXCEPT ![inst] =
                       linkFields(mem[inst], base, sch.fields, 1)]
          /\ cachedSchemaMap' =
               [k \in DOMAIN cachedSchemaMap \cup {typeID} |->
                  IF k = typeID THEN sch ELSE cachedSchemaMap[k]]
          /\ heap' = IF typeID \in DOMAIN cachedSchemaMap THEN heap
                     ELSE built.heap
          /\ loads' = IF typeID \in DOMAIN cachedSchemaMap THEN loads
                      ELSE loads + 1
          /\ last' = [call EXCEPT !.ret = "true"]
          /\ UNCHANGED conc

\* variant: a schema without descriptors counts as a failed lookup
Link_emptyFails(T, inst, base) ==
    /\ last.ret # "panic"
    /\ <<T, inst, base>> \in Locs
    /\ LET typeID == TypeID(T)
           call == [NoCall EXCEPT !.op = "Link", !.typ = T, !.inst = inst,
                                  !.base = base,
                                  !.relink = Linked(T, inst, base)]
       IN IF \/ typeID \notin DOMAIN cachedSchemaMap
             \/ Len(cachedSchemaMap[typeID].fields) = 0 THEN
              /\ last' = [call EXCEPT !.ret = "false"]
              /\ UNCHANGED <<cachedSchemaMap, heap, mem, loads, conc>>
          ELSE
              /\ mem' = [mem EXCEPT ![inst] =
                           linkFields(mem[inst], base,
                                      cachedSchemaMap[typeID].fields, 1)]
              /\ last' = [call EXCEPT !.ret = "true"]
              /\ UNCHANGED <<cachedSchemaMap, heap, loads, conc>>

\* Link[T](s) with s the address base inside instance inst
Link(T, inst, base) ==
    /\ last.ret # "panic"
    /\ <<T, inst, base>> \in Locs
    /\ LET typeID == TypeID(T)
           call == [NoCall EXCEPT !.op = "Link", !.typ = T, !.inst = inst,
                                  !.base = base,
                                  !.relink = Linked(T, inst, base)]
       IN IF typeID \notin DOMAIN cachedSchemaMap THEN
              /\ last' = [call EXCEPT !.ret = "false"]
              /\ UNCHANGED <<cachedSchemaMap, heap, mem, loads, conc>>
          ELSE
              /\ mem' = [mem EXCEPT ![inst] =
                           linkFields(mem[inst], base,
                                      cachedSchemaMap[typeID].fields, 1)]
              /\ last' = [call EXCEPT !.ret = "true"]
              /\ UNCHANGED <<cachedSchemaMap, heap, loads, conc>>

\* LinkWithPath[T](s, path): the same loop; the store to fp.parentPath is
\* commented out in the source, so path is not used
LinkWithPath(T, inst, base, path) ==
    /\ last.ret # "panic"
    /\ <<T, inst, base>> \in Locs
    /\ LET typeID == TypeID(T)
           call == [NoCall EXCEPT !.op = "LinkWithPath", !.typ = T,
                                  !.inst = inst, !.base = base,
                                  !.prefix = path]
       IN IF typeID \notin DOMAIN cachedSchemaMap THEN
              /\ last' = [call EXCEPT !.ret = "false"]
              /\ UNCHANGED <<cachedSchemaMap, heap, mem, loads, conc>>
          ELSE
              /\ mem' = [mem EXCEPT ![inst] =
                           linkFields(mem[inst], base,
                                      cachedSchemaMap[typeID].fields, 1)]
              /\ last' = [call EXCEPT !.ret = "true"]
              /\ UNCHANGED <<cachedSchemaMap, heap, loads, conc>>

(* ------------------------------------------------------------------ *)
(* Accessors of Field[T] / FieldSlice[T,E]                             *)
(* ------------------------------------------------------------------ *)
\* DefaulyFullNameSeparator
DefaulyFullNameSeparator == <<".">>

\* what a failed make([]byte, 0, n) with n < 0 yields
PanicValue == <<"panic">>

\* concatenation of the strings of a sequence
RECURSIVE Concat(_)
Concat(ss) == IF Len(ss) = 0 THEN <<>> ELSE ss[1] \o Concat(Tail(ss))

\* variant: the first segment instead of the last
fieldNameOp_first(pathPtr) ==
    IF pathPtr = Nil \/ Len(heap[pathPtr]) = 0 THEN EmptyStr
    ELSE heap[pathPtr][1]

\* fieldNameOp
fieldNameOp(pathPtr) ==
    IF pathPtr = Nil \/ Len(heap[pathPtr]) = 0 THEN EmptyStr
    ELSE heap[pathPtr][Len(heap[pathPtr])]

\* stringJoinRawSize
stringJoinRawSize(elems, sep) == Len(sep) * (Len(elems) - 1) + Len(Concat(elems))

\* variant: an empty separator is used as it is
fieldFullNameOp_noDefault(pathPtr, parentPathPtr, separator) ==
    IF pathPtr = Nil THEN EmptyStr
    ELSE LET all == IF parentPathPtr = Nil THEN heap[pathPtr]
                    ELSE heap[parentPathPtr] \o heap[pathPtr]
         IN IF Len(all) = 0 THEN EmptyStr
            ELSE all[1] \o
                 Concat([k \in 1..(Len(all) - 1) |-> separator \o all[k + 1]])

\* fieldFullNameOp
fieldFullNameOp(pathPtr, parentPathPtr, separator) ==
    LET sep == IF separator = EmptyStr THEN DefaulyFullNameSeparator
               ELSE separator
    IN IF pathPtr = Nil THEN EmptyStr
       ELSE LET path == heap[pathPtr]
            IN IF parentPathPtr = Nil \/ Len(heap[parentPathPtr]) = 0 THEN
                   IF Len(path) = 1 THEN path[1]
                   ELSE IF stringJoinRawSize(path, sep) < 0 THEN PanicValue
                   ELSE path[1] \o
                        Concat([k \in 1..(Len(path) - 1) |-> sep \o path[k + 1]])
               ELSE LET parent == heap[parentPathPtr]
                    IN parent[1] \o
                       Concat([k \in 1..(Len(parent) - 1) |-> sep \o parent[k + 1]])
                       \o Concat([k \in 1..Len(path) |-> sep \o path[k]])

\* fieldNoNameOp
fieldNoNameOp(pathPtr) == pathPtr = Nil \/ Len(heap[pathPtr]) = 0

\* getCombinedPath; the nil slice is the empty sequence
getCombinedPath(path, parent) ==
    IF path = Nil THEN <<>>
    ELSE IF parent = Nil THEN heap[path]
    ELSE heap[parent] \o heap[path]

\* the slots f.path and f.parentPath of the wrapper at byte offset off of
\* instance inst
PathSlot(inst, off) == mem[inst][off + StructField("Field_int", 1).offset]
ParentPathSlot(inst, off) == mem[inst][off + StructField("Field_int", 2).offset]

\* (*Field[T]).Name, FullName, Path, NoName on that wrapper
Name(inst, off) == fieldNameOp(PathSlot(inst, off))
FullName(inst, off, separator) ==
    fieldFullNameOp(PathSlot(inst, off), ParentPathSlot(inst, off), separator)
Path(inst, off) == getCombinedPath(PathSlot(inst, off), ParentPathSlot(inst, off))
NoName(inst, off) == fieldNoNameOp(PathSlot(inst, off))

Next ==
    \/ \E T \in LoadTypes, k \in TagKeys : LoadLink(T, k)
    \/ \E x \in AllLocs : Link(x[1], x[2], x[3])
    \/ \E x \in AllLocs, p \in Prefixes : LinkWithPath(x[1], x[2], x[3], p)

Spec == Init /\ [][Next]_vars

\* the scenario with two values of one type and a struct type that has
\* no matching wrapper field under json
PairLoadTypes == {"TwinA", "Plain", "int", "iface"}

NextPair ==
    \/ \E T \in PairLoadTypes, k \in TagKeys : LoadLink(T, k)
    \/ \E x \in PairLocs : Link(x[1], x[2], x[3])
    \/ \E x \in PairLocs, p \in Prefixes : LinkWithPath(x[1], x[2], x[3], p)

SpecPair == Init /\ [][NextPair]_vars

\* the array behind the slice that Path() returns for the wrapper at
\* byte offset off of instance inst: the one of the path object when there
\* is no parent path (return *path), none for an unlinked field (return
\* nil), a new one otherwise (make and copy)
Fresh == -1
PathArray(inst, off) ==
    IF PathSlot(inst, off) = Nil THEN Nil
    ELSE IF ParentPathSlot(inst, off) = Nil THEN PathSlot(inst, off)
    ELSE Fresh

\* p := f.Path(); p[i] = v for the wrapper f at byte offset off of
\* instance inst: an element write into the array behind p
PathElemWrite(inst, off, i, v) ==
    /\ last.ret # "panic"
    /\ PathArray(inst, off) \notin {Nil, Fresh}
    /\ i \in 1..Len(Path(inst, off))
    /\ heap' = [heap EXCEPT ![PathArray(inst, off)][i] = v]
    /\ last' = [NoCall EXCEPT !.op = "PathElemWrite", !.typ = InstType[inst],
                              !.inst = inst, !.base = off, !.out = v]
    /\ UNCHANGED <<cachedSchemaMap, mem, loads, conc>>

\* the scenario in which callers write into the slices Path() returns:
\* two values of one registered type
AliasInsts == 5..6
AliasLocs == LocsOf(AliasInsts)
AliasSegments == {<<"z">>}

NextAlias ==
    \/ \E k \in TagKeys : LoadLink("TwinA", k)
    \/ \E x \in AliasLocs : Link(x[1], x[2], x[3])
    \/ \E x \in AliasLocs, v \in AliasSegments :
          PathElemWrite(x[2], x[3] + StructField(x[1], 1).offset, 1, v)

SpecAlias == Init /\ [][NextAlias]_vars

\* the scenario with a three-level nesting, a struct that also holds
\* wrapper fields behind a plain struct field, a pointer and slices, and
\* an inner struct type that is registered and linked on its own
NestLoadTypes == {"Level1", "Holder", "Inner"}

\* the address of instance i
InstAddr(i) == 65536 * i

\* arr := (*[1]Inner)(&in); h.Q = &arr[0]; h.R = arr[:]; h.N.Value = arr[:]
\* for the Holder h in instance inst and the Inner in instance target
Refer(inst, target) ==
    /\ last.ret # "panic"
    /\ InstType[inst] = "Holder" /\ InstType[target] = "Inner"
    /\ mem' = [mem EXCEPT ![inst] =
                 [o \in DOMAIN mem[inst] |->
                    CASE o = StructField("Holder", 3).offset -> InstAddr(target)
                      [] o = StructField("Holder", 4).offset -> InstAddr(target)
                      [] o \in {StructField("Holder", 4).offset + 8,
                                StructField("Holder", 4).offset + 16} -> 1
                      [] o = StructField("Holder", 1).offset +
                             StructField("FieldSlice_Inner", 3).offset ->
                           InstAddr(target)
                      [] o \in {StructField("Holder", 1).offset +
                                StructField("FieldSlice_Inner", 3).offset + 8,
                                StructField("Holder", 1).offset +
                                StructField("FieldSlice_Inner", 3).offset + 16}
                           -> 1
                      [] OTHER -> mem[inst][o]]]
    /\ last' = [NoCall EXCEPT !.op = "Refer", !.typ = "Holder", !.inst = inst]
    /\ UNCHANGED <<cachedSchemaMap, heap, loads, conc>>

NextNest ==
    \/ \E T \in NestLoadTypes, k \in TagKeys : LoadLink(T, k)
    \/ \E x \in NestLocs : Link(x[1], x[2], x[3])
    \/ \E i \in NestInsts, j \in NestInsts : Refer(i, j)

SpecNest == Init /\ [][NextNest]_vars

(* ------------------------------------------------------------------ *)
(* The wrapped Value and its zero test                                 *)
(* ------------------------------------------------------------------ *)
\* address and content of the static data that string and slice values
\* of the callers point into
DataAddr == 4096
StrData == <<"t", "e", "s", "t">>
IntData == <<7, 8>>

\* the representations of the values the callers assign: an int is one
\* word; a string is data pointer and length; a slice is data pointer,
\* length and capacity ([]int(nil), []int{}, make([]int, 0, 2), ...)
GoValues(vt) ==
    CASE vt = "int" -> {<<0>>, <<1>>, <<2>>}
      [] vt = "string" ->
           {<<0, 0>>, <<DataAddr, 0>>, <<DataAddr, 1>>, <<DataAddr, 2>>,
            <<DataAddr, 4>>}
      [] vt = "slice_int" ->
           {<<0, 0, 0>>, <<DataAddr, 0, 0>>, <<DataAddr, 0, 2>>,
            <<DataAddr, 1, 2>>}
      [] OTHER -> {}

\* var zero T
ZeroValue(vt) == [k \in 1..(Sizeof(vt) \div 8) |-> 0]

\* the bytes of a string value
StringBytes(w) == SubSeq(StrData, 1, w[2])

\* the == of a comparable T
GoEqual(vt, a, b) ==
    IF vt = "string" THEN a[2] = b[2] /\ StringBytes(a) = StringBytes(b)
    ELSE a = b

\* the Value of the wrapper of type wt at byte offset off of instance
\* inst
ValueType(wt) == StructField(wt, 3).type
ValueOf(wt, inst, off) ==
    [k \in 1..(Sizeof(ValueType(wt)) \div 8) |->
       mem[inst][off + StructField(wt, 3).offset + 8 * (k - 1)]]

\* f.Value = v
SetValue(wt, inst, off, v) ==
    /\ mem' = [mem EXCEPT ![inst] =
                 [o \in DOMAIN mem[inst] |->
                    IF /\ o >= off + StructField(wt, 3).offset
                       /\ o < off + StructField(wt, 3).offset + 8 * Len(v)
                    THEN v[(o - off - StructField(wt, 3).offset) \div 8 + 1]
                    ELSE mem[inst][o]]]
    /\ UNCHANGED <<cachedSchemaMap, heap, last, loads, conc>>

\* (*Field[T]).NoValue
Field_NoValue(wt, inst, off) ==
    GoEqual(ValueType(wt), ValueOf(wt, inst, off), ZeroValue(ValueType(wt)))

\* (*FieldSlice[T, E]).NoValue: len(f.Value) == 0
FieldSlice_NoValue(wt, inst, off) == ValueOf(wt, inst, off)[2] = 0

\* the instantiations of FieldSlice[T, E]
FieldSliceTypes == {"FieldSlice_int", "FieldSlice_Inner"}

\* NoValue and IsZero of the wrapper, by its type
NoValue(wt, inst, off) ==
    IF wt \in FieldSliceTypes THEN FieldSlice_NoValue(wt, inst, off)
    ELSE Field_NoValue(wt, inst, off)
IsZero(wt, inst, off) == NoValue(wt, inst, off)

\* the wrapper fields of the instances whose Values are assigned:
\* <<wrapper type, instance, offset>>
ValueSlots ==
    {<<StructField(InstType[i], k).type, i, StructField(InstType[i], k).offset>> :
       i \in ValueInsts, k \in 1..NumField("Vals")}

NextValue ==
    \/ \E k \in TagKeys : LoadLink("Vals", k)
    \/ \E x \in ValueLocs : Link(x[1], x[2], x[3])
    \/ \E x \in ValueSlots :
          \E v \in GoValues(ValueType(x[1])) : SetValue(x[1], x[2], x[3], v)

SpecValue == Init /\ [][NextValue]_vars

(* ------------------------------------------------------------------ *)
(* Marshaling and unmarshaling of the wrappers. The byte strings of    *)
(* encoding/json are sequences of characters.                          *)
(* ------------------------------------------------------------------ *)
Quote == "\""
s_null == <<"n", "u", "l", "l">>
Digits == <<"0", "1", "2", "3", "4", "5", "6", "7", "8", "9">>

\* strconv.AppendInt(nil, n, 10) for n >= 0
RECURSIVE FormatInt(_)
FormatInt(n) ==
    IF n < 10 THEN <<Digits[n + 1]>>
    ELSE FormatInt(n \div 10) \o <<Digits[(n % 10) + 1]>>

\* the elements of a slice value
Elems(w) == SubSeq(IntData, 1, w[2])

RECURSIVE joinComma(_)
joinComma(parts) ==
    IF Len(parts) = 0 THEN <<>>
    ELSE IF Len(parts) = 1 THEN parts[1]
    ELSE parts[1] \o <<",">> \o joinComma(Tail(parts))

\* json.Marshal(v) for v of value type vt: a number in decimal, a string
\* between quotes (the bytes of StrData need no escape), a slice as null
\* when nil and as an array otherwise
json_Marshal(vt, w) ==
    CASE vt = "int" -> FormatInt(w[1])
      [] vt = "string" -> <<Quote>> \o StringBytes(w) \o <<Quote>>
      [] vt = "slice_int" ->
           IF w[1] = Nil THEN s_null
           ELSE <<"[">> \o
                joinComma([k \in 1..Len(Elems(w)) |-> FormatInt(Elems(w)[k])])
                \o <<"]">>
      [] OTHER -> s_null

\* var TextMarshaler, at its initial value
TextMarshaler(vt, w) == json_Marshal(vt, w)

\* the wrapper of type wt at byte offset off of instance inst, as the
\* receiver f of a method
Receiver(wt, inst, off) ==
    [path |-> mem[inst][off + StructField(wt, 1).offset],
     parentPath |-> mem[inst][off + StructField(wt, 2).offset],
     Value |-> ValueOf(wt, inst, off)]

\* variant: the path is marshaled along with the Value
MarshalJSON_withPath(wt, f) ==
    FormatInt(f.path) \o <<":">> \o json_Marshal(ValueType(wt), f.Value)

\* (Field[T]).MarshalJSON, (FieldSlice[T, E]).MarshalJSON
MarshalJSON(wt, f) == json_Marshal(ValueType(wt), f.Value)

\* (*Field[T]).MarshalText, (*FieldSlice[T, E]).MarshalText
MarshalText(wt, f) == TextMarshaler(ValueType(wt), f.Value)

\* json.Marshal of a struct value whose fields are wrappers: the exported
\* fields in declaration order, named by the json tag, a field with the
\* omitzero option left out when its IsZero method says so, every other
\* one encoded by its MarshalJSON method
RECURSIVE structEntries(_, _, _, _)
structEntries(T, inst, base, i) ==
    IF i > NumField(T) THEN <<>>
    ELSE LET field == StructField(T, i)
             tagv == TagGet(field.tag, "json")
             opts == Split(tagv, Comma)
             name == IF opts[1] = EmptyStr THEN field.name ELSE opts[1]
             omitzero == \E j \in 2..Len(opts) : opts[j] = s_omitzero
             skip == \/ ~IsExported(field)
                     \/ tagv = Dash
                     \/ omitzero /\ IsZero(field.type, inst, base + field.offset)
             entry == <<Quote>> \o name \o <<Quote, ":">> \o
                      MarshalJSON(field.type,
                                  Receiver(field.type, inst, base + field.offset))
         IN (IF skip THEN <<>> ELSE <<entry>>) \o
            structEntries(T, inst, base, i + 1)

json_MarshalStruct(T, inst, base) ==
    <<"{">> \o joinComma(structEntries(T, inst, base, 1)) \o <<"}">>

\* what a JSON text is: null, a number, a string, an array of numbers, or
\* no JSON at all
IsNumber(data) ==
    /\ Len(data) > 0
    /\ \A i \in 1..Len(data) : \E d \in 1..10 : Digits[d] = data[i]
    /\ Len(data) > 1 => data[1] # "0"

JsonKind(data) ==
    IF data = s_null THEN "null"
    ELSE IF IsNumber(data) THEN "number"
    ELSE IF /\ Len(data) >= 2 /\ data[1] = Quote /\ data[Len(data)] = Quote
            /\ \A i \in 2..(Len(data) - 1) : data[i] \notin {Quote, "\\"}
         THEN "string"
    ELSE IF /\ Len(data) >= 2 /\ data[1] = "[" /\ data[Len(data)] = "]"
            /\ \/ Len(data) = 2
               \/ \A p \in 1..Len(Split(SubSeq(data, 2, Len(data) - 1), Comma)) :
                     IsNumber(Split(SubSeq(data, 2, Len(data) - 1), Comma)[p])
         THEN "array"
    ELSE "invalid"

\* strconv.ParseInt of a number text
RECURSIVE ParseInt(_)
ParseInt(data) ==
    IF Len(data) = 0 THEN 0
    ELSE ParseInt(SubSeq(data, 1, Len(data) - 1)) * 10 +
         (CHOOSE d \in 0..9 : Digits[d + 1] = data[Len(data)])

\* the string value holding the given bytes
StringOf(bytes) ==
    IF bytes = <<>> THEN <<0, 0>>
    ELSE <<DataAddr, CHOOSE k \in 1..Len(StrData) : SubSeq(StrData, 1, k) = bytes>>

\* json.Unmarshal(data, &v) for v of value type vt holding old: the error
\* and what v holds afterwards. null leaves an int or a string alone and
\* makes a slice nil; a text of another kind is an error and leaves v
\* alone; an array is decoded into the backing array of old when its
\* capacity suffices and into a new one otherwise.
json_Unmarshal(vt, data, old) ==
    LET kind == JsonKind(data)
        n == IF kind = "array" /\ Len(data) > 2
             THEN Len(Split(SubSeq(data, 2, Len(data) - 1), Comma)) ELSE 0
    IN CASE kind = "invalid" -> [err |-> TRUE, val |-> old]
         [] kind = "null" ->
              [err |-> FALSE,
               val |-> IF vt = "slice_int" THEN <<0, 0, 0>> ELSE old]
         [] kind = "number" /\ vt = "int" ->
              [err |-> FALSE, val |-> <<ParseInt(data)>>]
         [] kind = "string" /\ vt = "string" ->
              [err |-> FALSE,
               val |-> StringOf(SubSeq(data, 2, Len(data) - 1))]
         [] kind = "array" /\ vt = "slice_int" ->
              [err |-> FALSE,
               val |-> IF n = 0 THEN <<DataAddr, 0, 0>>
                       ELSE IF n <= old[3] THEN <<old[1], n, old[3]>>
                       ELSE <<DataAddr, n, n>>]
         [] OTHER -> [err |-> TRUE, val |-> old]

\* var TextUnmarshaler, at its initial value
TextUnmarshaler(vt, data, old) == json_Unmarshal(vt, data, old)

\* the instance memory after *p = v for p at byte offset off
StoreAt(m, off, v) ==
    [o \in DOMAIN m |->
       IF o >= off /\ o < off + 8 * Len(v) THEN v[(o - off) \div 8 + 1]
       ELSE m[o]]

\* variant: the text is decoded into the wrapper itself
UnmarshalJSON_intoWrapper(wt, inst, off, data) ==
    /\ last.ret # "panic"
    /\ LET r == json_Unmarshal(ValueType(wt), data, ValueOf(wt, inst, off))
       IN /\ mem' = [mem EXCEPT ![inst] = StoreAt(mem[inst], off, r.val)]
          /\ last' = [NoCall EXCEPT !.op = "UnmarshalJSON", !.typ = wt,
                                    !.inst = inst, !.base = off,
                                    !.ret = IF r.err THEN "error" ELSE "nil"]
    /\ UNCHANGED <<cachedSchemaMap, heap, loads, conc>>

\* (*Field[T]).UnmarshalJSON(data), (*FieldSlice[T, E]).UnmarshalJSON(data):
\* json.Unmarshal(data, &f.Value)
UnmarshalJSON(wt, inst, off, data) ==
    /\ last.ret # "panic"
    /\ LET r == json_Unmarshal(ValueType(wt), data, ValueOf(wt, inst, off))
       IN /\ mem' = [mem EXCEPT ![inst] =
                       StoreAt(mem[inst], off + StructField(wt, 3).offset,
                               r.val)]
          /\ last' = [NoCall EXCEPT !.op = "UnmarshalJSON", !.typ = wt,
                                    !.inst = inst, !.base = off,
                                    !.ret = IF r.err THEN "error" ELSE "nil"]
    /\ UNCHANGED <<cachedSchemaMap, heap, loads, conc>>

\* (*Field[T]).UnmarshalText(text), (*FieldSlice[T, E]).UnmarshalText(text):
\* TextUnmarshaler(text, &f.Value)
UnmarshalText(wt, inst, off, text) ==
    /\ last.ret # "panic"
    /\ LET r == TextUnmarshaler(ValueType(wt), text, ValueOf(wt, inst, off))
       IN /\ mem' = [mem EXCEPT ![inst] =
                       StoreAt(mem[inst], off + StructField(wt, 3).offset,
                               r.val)]
          /\ last' = [NoCall EXCEPT !.op = "UnmarshalText", !.typ = wt,
                                    !.inst = inst, !.base = off,
                                    !.ret = IF r.err THEN "error" ELSE "nil"]
    /\ UNCHANGED <<cachedSchemaMap, heap, loads, conc>>

\* data, err := json.Marshal(s) for the struct of type T in instance inst
Marshal(T, inst) ==
    /\ last.ret # "panic"
    /\ last' = [NoCall EXCEPT !.op = "Marshal", !.typ = T, !.inst = inst,
                              !.out = json_MarshalStruct(T, inst, 0),
                              !.ret = "nil"]
    /\ UNCHANGED <<cachedSchemaMap, heap, mem, loads, conc>>

\* the scenario that marshals and unmarshals: the types registered and
\* the texts decoded
MarshalLoadTypes == {"Sample", "Vals"}
MarshalKeys == {"json"}
JsonInputs ==
    {<<"2">>, s_null, <<"x">>, <<Quote, "t", "e", "s", "t", Quote>>,
     <<"[", "7", "]">>}
TextInputs == {<<"2">>}

\* the wrapper fields of these instances: <<wrapper type, instance, offset>>
MarshalSlots ==
    UNION {{<<StructField(InstType[i], k).type, i,
              StructField(InstType[i], k).offset>> :
              k \in 1..NumField(InstType[i])} : i \in MarshalInsts}

NextMarshal ==
    \/ \E T \in MarshalLoadTypes, k \in MarshalKeys : LoadLink(T, k)
    \/ \E x \in MarshalLocs : Link(x[1], x[2], x[3])
    \/ \E i \in MarshalInsts : Marshal(InstType[i], i)
    \/ \E x \in MarshalSlots, data \in JsonInputs :
          UnmarshalJSON(x[1], x[2], x[3], data)
    \/ \E x \in MarshalSlots, text \in TextInputs :
          UnmarshalText(x[1], x[2], x[3], text)

SpecMarshal == Init /\ [][NextMarshal]_vars

(* ------------------------------------------------------------------ *)
(* Concurrent callers. cachedSchemaMap is a plain map and neither      *)
(* LoadLink nor Link takes a lock, so the calls of several goroutines  *)
(* interleave at their accesses to the map and to the instances. An    *)
(* assignment to the map takes time (StoreBegin .. StoreEnd); an       *)
(* access that meets a writer inside the map is a data race, whose     *)
(* outcome is any of those the runtime can produce: the fatal error    *)
(* "concurrent map writes" / "concurrent map read and map write" when  *)
(* the runtime notices it, otherwise a lost update or a schema whose   *)
(* initialisation the reader does not see yet.                         *)
(* ------------------------------------------------------------------ *)
ConcLoadTypes == {"Level1", "TwinA"}
ConcKeys == {"json"}
ConcLinkLocs == {x \in ConcLocs : x[3] = 0}
\* the values among them that callers also link with LinkWithPath
ConcLinkWithPathLocs == {x \in ConcLinkLocs : x[2] = 10}

\* no goroutine has met a fatal error (which ends the process)
Alive == \A t \in Threads : threads[t].pc # "fatal"

\* some goroutine is inside LoadLink, between the build and the return
Registering == \E u \in Threads : threads[u].pc \in {"store", "storing"}

\* LoadLink[T](tagKey) up to the assignment to the map: the kind check
\* and the build of sch
StartLoadLink(t, T, tagKey) ==
    /\ Alive
    /\ threads[t].pc = "idle"
    /\ LET call == [Idle EXCEPT !.op = "LoadLink", !.typ = T, !.key = tagKey]
       IN IF Kind(TypeOfZero(T)) # "struct" THEN
              \* return errors.New(...)
              UNCHANGED vars
          ELSE
              /\ loads < MaxLoads
              /\ LET built == collectFields(T, tagKey, 0, <<>>,
                                            [heap |-> heap, fields |-> <<>>], 1)
                     sch == [fields |-> built.fields, TagKey |-> tagKey]
                 IN /\ heap' = built.heap
                    /\ threads' =
                         [u \in Threads |->
                            IF u = t
                            THEN [call EXCEPT !.pc = "store", !.sch = sch]
                            ELSE [threads[u] EXCEPT !.quiet = FALSE]]
              /\ loads' = loads + 1
              /\ UNCHANGED <<cachedSchemaMap, mem, last, writers,
                             genericSchemaCache>>

\* cachedSchemaMap[typeID] = sch, entering the map. With another writer
\* inside, the runtime either notices ("concurrent map writes") or not;
\* raced collects the types of the assignments that overlap this one.
StoreBegin(t) ==
    /\ Alive
    /\ threads[t].pc = "store"
    /\ IF writers = {} THEN
           /\ writers' = {t}
           /\ threads' = [threads EXCEPT ![t].pc = "storing"]
       ELSE
           \/ /\ threads' = [threads EXCEPT ![t].pc = "fatal"]
              /\ UNCHANGED writers
           \/ /\ writers' = writers \cup {t}
              /\ threads' =
                   [u \in Threads |->
                      IF u = t
                      THEN [threads[u] EXCEPT
                              !.pc = "storing",
                              !.raced = {threads[w].typ : w \in writers}]
                      ELSE IF u \in writers
                      THEN [threads[u] EXCEPT
                              !.raced = @ \cup {threads[t].typ}]
                      ELSE threads[u]]
    /\ UNCHANGED <<cachedSchemaMap, heap, mem, last, loads,
                   genericSchemaCache>>

\* the map with sch stored under the type of goroutine t
Stored(t) ==
    [k \in DOMAIN cachedSchemaMap \cup {TypeID(threads[t].typ)} |->
       IF k = TypeID(threads[t].typ) THEN threads[t].sch
       ELSE cachedSchemaMap[k]]

\* cachedSchemaMap[typeID] = sch, leaving the map, and return nil. An
\* assignment that overlapped another one may be lost.
StoreEnd(t) ==
    /\ Alive
    /\ threads[t].pc = "storing"
    /\ writers' = writers \ {t}
    /\ \/ cachedSchemaMap' = Stored(t)
       \/ /\ threads[t].raced # {}
          /\ UNCHANGED cachedSchemaMap
    /\ threads' = [threads EXCEPT ![t] = Idle]
    /\ UNCHANGED <<heap, mem, last, loads, genericSchemaCache>>

\* variant: the path pointer is stored into the parentPath slot
linkStore_parentSlot(m, ptr, field) ==
    [m EXCEPT ![ptr + field.offset + HeaderParentPath] = field.pathPtr]

\* one iteration of the loop of Link: the store through the fieldHeader
\* view at ptr + field.offset
linkStore(m, ptr, field) ==
    [m EXCEPT ![ptr + field.offset + HeaderPath] = field.pathPtr]

\* what sch, ok := cachedSchemaMap[typeID] can yield for type T: the
\* entry, or a miss; with a writer inside the map also the schema that
\* writer is storing for T, complete or not yet initialised
Lookups(T) ==
    {IF TypeID(T) \in DOMAIN cachedSchemaMap
     THEN [ok |-> TRUE, sch |-> cachedSchemaMap[TypeID(T)]]
     ELSE [ok |-> FALSE, sch |-> ZeroSchema]}
    \cup UNION {{[ok |-> TRUE, sch |-> threads[w].sch],
                 [ok |-> TRUE, sch |-> ZeroSchema]} :
                  w \in {u \in writers : threads[u].typ = T}}

\* Link[T](s) up to the loop: the lookup in the map, which meets a writer
\* or not; return false on a miss. No two goroutines link the same
\* instance at the same time.
StartLink(t, x) ==
    /\ Alive
    /\ threads[t].pc = "idle"
    /\ \A u \in Threads :
          threads[u].pc = "loop" => threads[u].inst # x[2]
    /\ \/ /\ writers # {}
          /\ threads' = [threads EXCEPT ![t] =
                           [Idle EXCEPT !.pc = "fatal", !.op = "Link",
                                        !.typ = x[1], !.inst = x[2]]]
       \/ \E r \in Lookups(x[1]) :
             IF ~r.ok THEN UNCHANGED threads
             ELSE threads' = [threads EXCEPT ![t] =
                                [Idle EXCEPT
                                   !.pc = "loop", !.op = "Link", !.typ = x[1],
                                   !.inst = x[2], !.sch = r.sch, !.k = 1,
                                   !.quiet = ~Registering]]
    /\ UNCHANGED <<cachedSchemaMap, heap, mem, last, loads, writers,
                   genericSchemaCache>>

\* LinkWithPath[T](s, path) up to the loop: the same lookup in the map
\* and the same return false on a miss; path is not used, the store to
\* fp.parentPath being commented out in the source
StartLinkWithPath(t, x, path) ==
    /\ Alive
    /\ threads[t].pc = "idle"
    /\ \A u \in Threads :
          threads[u].pc = "loop" => threads[u].inst # x[2]
    /\ \/ /\ writers # {}
          /\ threads' = [threads EXCEPT ![t] =
                           [Idle EXCEPT !.pc = "fatal", !.op = "LinkWithPath",
                                        !.typ = x[1], !.inst = x[2]]]
       \/ \E r \in Lookups(x[1]) :
             IF ~r.ok THEN UNCHANGED threads
             ELSE threads' = [threads EXCEPT ![t] =
                                [Idle EXCEPT
                                   !.pc = "loop", !.op = "LinkWithPath",
                                   !.typ = x[1], !.inst = x[2],
                                   !.sch = r.sch, !.k = 1,
                                   !.quiet = ~Registering]]
    /\ UNCHANGED <<cachedSchemaMap, heap, mem, last, loads, writers,
                   genericSchemaCache>>

\* one iteration of the loop of Link or of LinkWithPath (the store to
\* fp.path is the whole body of both), or return true after the last one
LinkStep(t) ==
    /\ Alive
    /\ threads[t].pc = "loop"
    /\ IF threads[t].k > Len(threads[t].sch.fields) THEN
           /\ threads' = [threads EXCEPT ![t] = Idle]
           /\ UNCHANGED mem
       ELSE
           /\ mem' = [mem EXCEPT ![threads[t].inst] =
                        linkStore(mem[threads[t].inst], 0,
                                  threads[t].sch.fields[threads[t].k])]
           /\ threads' = [threads EXCEPT ![t].k = threads[t].k + 1]
    /\ UNCHANGED <<cachedSchemaMap, heap, last, loads, writers,
                   genericSchemaCache>>

NextConc ==
    \/ \E t \in Threads, T \in ConcLoadTypes, k \in ConcKeys :
          StartLoadLink(t, T, k)
    \/ \E t \in Threads : StoreBegin(t)
    \/ \E t \in Threads : StoreEnd(t)
    \/ \E t \in Threads, x \in ConcLinkLocs : StartLink(t, x)
    \/ \E t \in Threads, x \in ConcLinkWithPathLocs, path \in Prefixes :
          StartLinkWithPath(t, x, path)
    \/ \E t \in Threads : LinkStep(t)

SpecConc == Init /\ [][NextConc]_vars

(* ------------------------------------------------------------------ *)
(* The lazy linker of linker.go: Link[T](s, tagKey) builds and caches   *)
(* the schema of T on first use. Its Field[T] is a path pointer and the *)
(* Value; its cache is a sync.Map, whose Load and Store are atomic.     *)
(* ------------------------------------------------------------------ *)
\* the check that Value (field index 1 of the wrapper) is a struct
valueIsStruct1(field) ==
    /\ NumField(field.type) >= 2
    /\ StructField(field.type, 2).name = s_Value
    /\ Kind(StructField(field.type, 2).type) = "struct"

\* collectFields of linker.go: as above, with Value at field index 1
RECURSIVE collectFields1(_, _, _, _, _, _)
collectFields1(tVal, tagKey, baseOffset, parentPath, acc, i) ==
    IF i > NumField(tVal) THEN acc
    ELSE
      LET field == StructField(tVal, i)
          currentPath == buildPath(parentPath, segmentName(field, tagKey))
          pathPtr == Len(acc.heap) + 1
          acc1 == [heap |-> Append(acc.heap, currentPath),
                   fields |-> Append(acc.fields,
                                     [pathPtr |-> pathPtr,
                                      offset |-> baseOffset + field.offset])]
          valueField == StructField(field.type, 2)
          acc2 ==
              IF valueIsStruct1(field)
              THEN collectFields1(valueField.type, tagKey,
                                  baseOffset + field.offset + valueField.offset,
                                  currentPath, acc1, 1)
              ELSE acc1
      IN IF skipField(field, tagKey) THEN
             collectFields1(tVal, tagKey, baseOffset, parentPath, acc, i + 1)
         ELSE IF isFieldPattern(field) THEN
             collectFields1(tVal, tagKey, baseOffset, parentPath, acc2, i + 1)
         ELSE
             collectFields1(tVal, tagKey, baseOffset, parentPath, acc, i + 1)

\* buildSchema(tVal, tagKey), allocating on heap hp: the schema and the
\* heap after the build
buildSchema(tVal, tagKey, hp) ==
    LET built == collectFields1(tVal, tagKey, 0, <<>>,
                                [heap |-> hp, fields |-> <<>>], 1)
    IN [heap |-> built.heap,
        sch |-> [fields |-> built.fields, TagKey |-> tagKey]]

\* genericSchemaCache.Store(tVal, sch)
CacheStore(cache, tVal, sch) ==
    [k \in DOMAIN cache \cup {TypeID(tVal)} |->
       IF k = TypeID(tVal) THEN sch ELSE cache[k]]

\* variant: a cached schema built for another tag key is refused
Link2_checkKey(T, inst, base, tagKey) ==
    /\ last.ret # "panic"
    /\ <<T, inst, base>> \in LazyLocs
    /\ LET tVal == TypeOfZero(T)
           call == [NoCall EXCEPT !.op = "Link2", !.typ = T, !.key = tagKey,
                                  !.inst = inst, !.base = base]
       IN IF TypeID(tVal) \in DOMAIN genericSchemaCache THEN
              IF genericSchemaCache[TypeID(tVal)].TagKey # tagKey THEN
                  /\ last' = [call EXCEPT !.ret = "panic"]
                  /\ UNCHANGED <<cachedSchemaMap, heap, mem, loads, threads,
                                 writers, genericSchemaCache>>
              ELSE
                  /\ mem' = [mem EXCEPT ![inst] =
                               linkFields(mem[inst], base,
                                          genericSchemaCache[TypeID(tVal)].fields,
                                          1)]
                  /\ last' = [call EXCEPT !.ret = "done"]
                  /\ UNCHANGED <<cachedSchemaMap, heap, loads, threads,
                                 writers, genericSchemaCache>>
          ELSE IF Kind(tVal) # "struct" THEN
              /\ last' = [call EXCEPT !.ret = "done"]
              /\ UNCHANGED <<cachedSchemaMap, heap, mem, loads, threads,
                             writers, genericSchemaCache>>
          ELSE
              LET b == buildSchema(tVal, tagKey, heap)
              IN /\ heap' = b.heap
                 /\ genericSchemaCache' =
                      CacheStore(genericSchemaCache, tVal, b.sch)
                 /\ mem' = [mem EXCEPT ![inst] =
                              linkFields(mem[inst], base, b.sch.fields, 1)]
                 /\ last' = [call EXCEPT !.ret = "done"]
                 /\ UNCHANGED <<cachedSchemaMap, loads, threads, writers>>

\* Link[T](s, tagKey) of linker.go with s the address base inside
\* instance inst: the cached schema if there is one, whatever key it was
\* built for; otherwise return for a non-struct T, or build, store, link
Link2(T, inst, base, tagKey) ==
    /\ last.ret # "panic"
    /\ <<T, inst, base>> \in LazyLocs
    /\ LET tVal == TypeOfZero(T)
           call == [NoCall EXCEPT !.op = "Link2", !.typ = T, !.key = tagKey,
                                  !.inst = inst, !.base = base]
       IN IF TypeID(tVal) \in DOMAIN genericSchemaCache THEN
              /\ mem' = [mem EXCEPT ![inst] =
                           linkFields(mem[inst], base,
                                      genericSchemaCache[TypeID(tVal)].fields,
                                      1)]
              /\ last' = [call EXCEPT !.ret = "done"]
              /\ UNCHANGED <<cachedSchemaMap, heap, loads, threads, writers,
                             genericSchemaCache>>
          ELSE IF Kind(tVal) # "struct" THEN
              /\ last' = [call EXCEPT !.ret = "done"]
              /\ UNCHANGED <<cachedSchemaMap, heap, mem, loads, threads,
                             writers, genericSchemaCache>>
          ELSE
              LET b == buildSchema(tVal, tagKey, heap)
              IN /\ heap' = b.heap
                 /\ genericSchemaCache' =
                      CacheStore(genericSchemaCache, tVal, b.sch)
                 /\ mem' = [mem EXCEPT ![inst] =
                              linkFields(mem[inst], base, b.sch.fields, 1)]
                 /\ last' = [call EXCEPT !.ret = "done"]
                 /\ UNCHANGED <<cachedSchemaMap, loads, threads, writers>>

\* (*Field[T]).UnmarshalJSON(data) of linker.go for the wrapper of type
\* wt at byte offset off of instance inst: json.Unmarshal(data, &f.Value),
\* with Value at field index 1
UnmarshalJSON1(wt, inst, off, data) ==
    /\ last.ret # "panic"
    /\ LET vt == StructField(wt, 2).type
           at == off + StructField(wt, 2).offset
           old == [k \in 1..(Sizeof(vt) \div 8) |-> mem[inst][at + 8 * (k - 1)]]
           r == json_Unmarshal(vt, data, old)
       IN /\ mem' = [mem EXCEPT ![inst] = StoreAt(mem[inst], at, r.val)]
          /\ last' = [NoCall EXCEPT !.op = "UnmarshalJSON1", !.typ = wt,
                                    !.inst = inst, !.base = off,
                                    !.ret = IF r.err THEN "error" ELSE "nil"]
    /\ UNCHANGED <<cachedSchemaMap, heap, loads, conc>>

\* the wrapper fields of the lazily linked values that hold an int:
\* <<wrapper type, instance, offset>>, and the texts decoded into them
LazyValueSlots ==
    {<<StructField("Lazy", k).type, i, StructField("Lazy", k).offset>> :
       i \in LazyInsts,
       k \in {j \in 1..NumField("Lazy") :
                StructField("Lazy", j).type = "Field1_int"}}
LazyJsonInputs == {<<"2">>, <<"x">>}

NextLazy ==
    \/ \E x \in LazyLocs, k \in TagKeys : Link2(x[1], x[2], x[3], k)
    \/ \E x \in LazyValueSlots, data \in LazyJsonInputs :
          UnmarshalJSON1(x[1], x[2], x[3], data)

SpecLazy == Init /\ [][NextLazy]_vars

\* the concurrent callers of the lazy Link: one type, one key, each
\* goroutine on an instance no other goroutine is linking
LazyConcLocs == {x \in LazyLocs : x[1] = "Lazy"}
LazyConcKeys == {"json"}
\* the wrapper field that is decoded into while the goroutines link, and
\* the text decoded
LazyConcValueSlots == {x \in LazyValueSlots : x[2] = 16 /\ x[3] = 0}
LazyConcJsonInputs == {<<"2">>}

\* variant: on a miss the cache entry is claimed with an empty schema
\* before the build
LazyStart_claimEntry(t, x, tagKey) ==
    /\ threads[t].pc = "idle"
    /\ \A u \in Threads : threads[u].pc # "idle" => threads[u].inst # x[2]
    /\ LET call == [Idle EXCEPT !.op = "Link2", !.typ = x[1], !.key = tagKey,
                                !.inst = x[2]]
       IN IF TypeID(x[1]) \in DOMAIN genericSchemaCache THEN
              /\ threads' = [threads EXCEPT ![t] =
                               [call EXCEPT !.pc = "loop", !.k = 1,
                                   !.sch = genericSchemaCache[TypeID(x[1])]]]
              /\ UNCHANGED genericSchemaCache
          ELSE
              /\ threads' = [threads EXCEPT ![t] = [call EXCEPT !.pc = "build"]]
              /\ genericSchemaCache' =
                   CacheStore(genericSchemaCache, x[1], ZeroSchema)
    /\ UNCHANGED <<cachedSchemaMap, heap, mem, last, loads, writers>>

\* Link[T](s, tagKey) up to the build: genericSchemaCache.Load(tVal);
\* on a hit go to the loop with the cached schema, on a miss return for
\* a non-struct T and go on to the build otherwise
LazyStart(t, x, tagKey) ==
    /\ threads[t].pc = "idle"
    /\ \A u \in Threads : threads[u].pc # "idle" => threads[u].inst # x[2]
    /\ LET call == [Idle EXCEPT !.op = "Link2", !.typ = x[1], !.key = tagKey,
                                !.inst = x[2]]
       IN IF TypeID(x[1]) \in DOMAIN genericSchemaCache THEN
              threads' = [threads EXCEPT ![t] =
                            [call EXCEPT !.pc = "loop", !.k = 1,
                                !.sch = genericSchemaCache[TypeID(x[1])]]]
          ELSE IF Kind(TypeOfZero(x[1])) # "struct" THEN
              UNCHANGED threads
          ELSE
              threads' = [threads EXCEPT ![t] = [call EXCEPT !.pc = "build"]]
    /\ UNCHANGED <<cachedSchemaMap, heap, mem, last, loads, writers,
                   genericSchemaCache>>

\* sch = buildSchema(tVal, tagKey)
LazyBuild(t) ==
    /\ threads[t].pc = "build"
    /\ LET b == buildSchema(threads[t].typ, threads[t].key, heap)
       IN /\ heap' = b.heap
          /\ threads' = [threads EXCEPT ![t].pc = "store", ![t].sch = b.sch]
    /\ UNCHANGED <<cachedSchemaMap, mem, last, loads, writers,
                   genericSchemaCache>>

\* genericSchemaCache.Store(tVal, sch), then on to the loop
LazyStore(t) ==
    /\ threads[t].pc = "store"
    /\ genericSchemaCache' =
         CacheStore(genericSchemaCache, threads[t].typ, threads[t].sch)
    /\ threads' = [threads EXCEPT ![t].pc = "loop", ![t].k = 1]
    /\ UNCHANGED <<cachedSchemaMap, heap, mem, last, loads, writers>>

NextLazyConc ==
    \/ \E t \in Threads, x \in LazyConcLocs, k \in LazyConcKeys :
          LazyStart(t, x, k)
    \/ \E t \in Threads : LazyBuild(t)
    \/ \E t \in Threads : LazyStore(t)
    \/ \E t \in Threads : LinkStep(t)
    \/ \E x \in LazyConcValueSlots, data \in LazyConcJsonInputs :
          UnmarshalJSON1(x[1], x[2], x[3], data)

\* every goroutine inside a call goes on running
LazyConcFair ==
    \A t \in Threads : WF_vars(LazyBuild(t) \/ LazyStore(t) \/ LinkStep(t))

SpecLazyConc == Init /\ [][NextLazyConc]_vars /\ LazyConcFair

(* ------------------------------------------------------------------ *)
(* What the declarations say: the wrapper fields of a type and the     *)
(* names their tags give them                                          *)
(* ------------------------------------------------------------------ *)
WrapperTypes == {"Field_int", "Field_string", "Field_Level2", "Field_Level3",
                 "Field_Inner", "FieldSlice_int", "FieldSlice_Inner"}

Least(S) == CHOOSE j \in S : \A l \in S : j <= l

\* the declared tag value of field f under key k ("" when there is none)
DeclTag(f, k) ==
    LET hits == {j \in 1..Len(f.tag) : f.tag[j].key = k}
    IN IF hits = {} THEN <<>> ELSE f.tag[Least(hits)].val

\* the part of a tag value before its first comma
Primary(v) ==
    LET commas == {j \in 1..Len(v) : v[j] = ","}
    IN IF commas = {} THEN v ELSE SubSeq(v, 1, Least(commas) - 1)

DashTagged(f, k) == Primary(DeclTag(f, k)) = <<"-">>
Unexported(f) == f.name[1] \notin UpperCase
EffName(f, k) ==
    IF Primary(DeclTag(f, k)) # <<>> THEN Primary(DeclTag(f, k)) ELSE f.name

\* every wrapper field inside a value of type t at offset base, with the
\* chain of declared fields leading to it (outermost first)
RECURSIVE WrapperSlots(_, _, _)
WrapperSlots(t, base, chain) ==
    UNION {LET f == StructField(t, k)
               c == Append(chain, f)
               v == StructField(f.type, 3)
           IN IF f.type \in WrapperTypes
              THEN {[off |-> base + f.offset, chain |-> c]} \cup
                   (IF Kind(v.type) = "struct"
                    THEN WrapperSlots(v.type, base + f.offset + v.offset, c)
                    ELSE {})
              ELSE {} : k \in 1..NumField(t)}

SlotTable == [t \in LinkTypes |-> WrapperSlots(t, 0, <<>>)]

Depth(s) == Len(s.chain)
Included(s, k) ==
    \A j \in 1..Len(s.chain) :
        ~Unexported(s.chain[j]) /\ ~DashTagged(s.chain[j], k)
\* the wrapper fields of every type that each tag key includes
IncludedTable ==
    [t \in LinkTypes |->
       [k \in TagKeys |-> {s \in SlotTable[t] : Included(s, k)}]]
ExpectedPath(s, k) == [j \in 1..Len(s.chain) |-> EffName(s.chain[j], k)]

RECURSIVE JoinWith(_, _)
JoinWith(segs, sep) ==
    IF Len(segs) = 0 THEN <<>>
    ELSE IF Len(segs) = 1 THEN segs[1]
    ELSE segs[1] \o sep \o JoinWith(Tail(segs), sep)

\* the tag key of the schema cached for type t
KeyOf(t) == cachedSchemaMap[TypeID(t)].TagKey
Registered(t) == TypeID(t) \in DOMAIN cachedSchemaMap

\* the last call was op on the T at offset x[3] of instance x[2]
LastIs(op, x, ret) ==
    /\ last.op = op /\ last.typ = x[1] /\ last.inst = x[2]
    /\ last.base = x[3] /\ last.ret = ret

\* the target of the last call
LastLoc == <<last.typ, last.inst, last.base>>

\* Name() and Path() of every wrapper field of every instance
AllNames ==
    [i \in Insts |->
       [s \in SlotTable[InstType[i]] |-> <<Name(i, s.off), Path(i, s.off)>>]]

(* ------------------------------------------------------------------ *)
(* C1                                                                  *)
(* ------------------------------------------------------------------ *)
ExcludedUnlinked(x, k) ==
    \A s \in SlotTable[x[1]] \ IncludedTable[x[1]][k] :
        PathSlot(x[2], x[3] + s.off) = Nil

NamedSlots(x) == {s \in SlotTable[x[1]] : Name(x[2], x[3] + s.off) # <<>>}

ExactlyIncludedNamed(x, k) ==
    /\ NamedSlots(x) = IncludedTable[x[1]][k]
    /\ Cardinality(NamedSlots(x)) = Cardinality(IncludedTable[x[1]][k])
    /\ \A s \in SlotTable[x[1]] \ IncludedTable[x[1]][k] :
          PathSlot(x[2], x[3] + s.off) = Nil

\* C1: when a type is registered under key k and Link succeeds on an
\* instance whose excluded fields were never linked, then exactly the
\* wrapper fields that are exported and not tagged "-" under k (on every
\* level of their nesting) report a non-empty Name(), and every excluded
\* wrapper field reports an empty Name() and keeps a nil path slot.
C1_ExactlyTaggedFieldsNamed ==
    [][(/\ last'.op = "Link" /\ last'.ret = "true"
        /\ ExcludedUnlinked(LastLoc', KeyOf(last'.typ)))
       => ExactlyIncludedNamed(LastLoc, KeyOf(last.typ))']_vars

\* Simple registered under json and linked: A, F, Z, J named (N = 4);
\* Y ("-"), Y.Value.A and m (unexported) unnamed (M = 3)
C1_Witness ==
    /\ LastIs("Link", <<"Simple", 1, 0>>, "true")
    /\ KeyOf("Simple") = "json"
    /\ Cardinality(NamedSlots(<<"Simple", 1, 0>>)) = 4
    /\ Cardinality(SlotTable["Simple"]) = 7
    /\ Name(1, 0) = <<"a">>
    /\ Name(1, 160) = <<>> /\ PathSlot(1, 160) = Nil
    /\ Name(1, 96) = <<>> /\ PathSlot(1, 96) = Nil

(* ------------------------------------------------------------------ *)
(* C2                                                                  *)
(* ------------------------------------------------------------------ *)
\* C2: after LoadLink under key k and a successful Link on the root
\* instance, every linked wrapper field, at any nesting depth, has
\* FullName(".") equal to the effective names of its enclosing wrapper
\* fields from the root down to itself joined by ".", and Name() equal to
\* the last of these names only.
C2_FullNameIsDottedChain ==
    \A x \in AllLocs :
        (LastIs("Link", x, "true") /\ x[3] = 0) =>
            \A s \in SlotTable[x[1]] :
                s \in IncludedTable[x[1]][KeyOf(x[1])] =>
                    /\ FullName(x[2], s.off, <<".">>) =
                          JoinWith(ExpectedPath(s, KeyOf(x[1])), <<".">>)
                    /\ Name(x[2], s.off) = EffName(s.chain[Depth(s)], KeyOf(x[1]))

\* Level1 linked under json: the field at depth 3 is "top.mid.deep" / "deep"
C2_Witness ==
    /\ LastIs("Link", <<"Level1", 2, 0>>, "true")
    /\ KeyOf("Level1") = "json"
    /\ FullName(2, 32, <<".">>) =
          <<"t", "o", "p", ".", "m", "i", "d", ".", "d", "e", "e", "p">>
    /\ Name(2, 32) = <<"d", "e", "e", "p">>
    /\ FullName(2, 16, <<".">>) = <<"t", "o", "p", ".", "m", "i", "d">>

(* ------------------------------------------------------------------ *)
(* C3                                                                  *)
(* ------------------------------------------------------------------ *)
\* C3: Link and LinkWithPath on an instance whose type has no entry in
\* the schema cache return false (no fault) and leave every instance, the
\* cache and the path objects exactly as they were.
C3_UnregisteredLinkIsNoOp ==
    [][(last'.op \in {"Link", "LinkWithPath"} /\ ~Registered(last'.typ)) =>
           /\ last'.ret = "false"
           /\ mem' = mem
           /\ cachedSchemaMap' = cachedSchemaMap
           /\ heap' = heap]_vars

\* Link[Level2] on the nested struct of a linked Level1 instance, Level2
\* itself not registered: false, and the instance is still linked
C3_Witness ==
    /\ LastIs("Link", <<"Level2", 2, 16>>, "false")
    /\ ~Registered("Level2")
    /\ Linked("Level1", 2, 0)
    /\ Name(2, 16) = <<"m", "i", "d">>

(* ------------------------------------------------------------------ *)
(* C4                                                                  *)
(* ------------------------------------------------------------------ *)
\* C4: LoadLink[T] for every non-struct T (basic, pointer, slice and
\* interface types) returns a non-nil error, does not panic, and adds no
\* entry to the schema cache.
C4_NonStructIsError ==
    (last.op = "LoadLink" /\ Kind(last.typ) # "struct") =>
        /\ last.ret = "error"
        /\ ~Registered(last.typ)

(* ------------------------------------------------------------------ *)
(* C5                                                                  *)
(* ------------------------------------------------------------------ *)
Twins == {"TwinA", "TwinB"}

\* the names the own tags of type t can give to slot s
OwnNames(s) == {EffName(s.chain[Depth(s)], k) : k \in TagKeys}

\* C5: TwinA and TwinB have the same field layout and different tags.
\* Once both are registered (in either order), a successful Link on an
\* instance of one of them gives its field the name of its own type's tag
\* under the key that type was registered with, and no linked field of
\* either instance ever carries a name that only the other type's tags give.
C5_CacheKeyedByTypeIdentity ==
    /\ \A x \in AllLocs :
         (/\ x[1] \in Twins
          /\ LastIs("Link", x, "true")
          /\ Registered("TwinA") /\ Registered("TwinB")) =>
             \A s \in SlotTable[x[1]] :
                 Name(x[2], x[3] + s.off) =
                     EffName(s.chain[Depth(s)], KeyOf(x[1]))
    /\ \A x \in AllLocs :
         x[1] \in Twins =>
             \A s \in SlotTable[x[1]] :
                 Name(x[2], x[3] + s.off) # <<>> =>
                     Name(x[2], x[3] + s.off) \in OwnNames(s)

\* both registered under json, both instances linked: "p" and "q"
C5_Witness ==
    /\ Sizeof("TwinA") = Sizeof("TwinB")
    /\ Registered("TwinA") /\ KeyOf("TwinA") = "json"
    /\ Registered("TwinB") /\ KeyOf("TwinB") = "json"
    /\ last.op = "Link" /\ last.ret = "true" /\ last.typ \in Twins
    /\ Name(3, 0) = <<"p">>
    /\ Name(4, 0) = <<"q">>

(* ------------------------------------------------------------------ *)
(* C6                                                                  *)
(* ------------------------------------------------------------------ *)
SchemaFields(t) == cachedSchemaMap[TypeID(t)].fields

\* C6: after a successful LinkWithPath(s, prefix), for every field of the
\* type's schema Path() is prefix followed by the field's schema path and
\* FullName(sep) is that sequence joined by sep.
C6_PrefixPrepended ==
    \A x \in AllLocs :
        (/\ last.op = "LinkWithPath" /\ last.ret = "true"
         /\ last.typ = x[1] /\ last.inst = x[2] /\ last.base = x[3]) =>
            \A k \in 1..Len(SchemaFields(x[1])) :
                LET f == SchemaFields(x[1])[k]
                IN /\ Path(x[2], x[3] + f.offset) =
                         last.prefix \o heap[f.pathPtr]
                   /\ FullName(x[2], x[3] + f.offset, <<"/">>) =
                         JoinWith(last.prefix \o heap[f.pathPtr], <<"/">>)

(* ------------------------------------------------------------------ *)
(* C7                                                                  *)
(* ------------------------------------------------------------------ *)
\* C7: a successful Link on an instance that was already linked since
\* the latest registration of its type leaves Name() and Path() of every
\* wrapper field of the instance as they were.
C7_RelinkIdempotent ==
    [][(/\ last'.op = "Link" /\ last'.ret = "true"
        /\ Linked(last'.typ, last'.inst, last'.base))
       => AllNames'[last'.inst] = AllNames[last'.inst]]_vars

\* the second Link on the linked Level1 instance has returned
C7_Witness ==
    /\ LastIs("Link", <<"Level1", 2, 0>>, "true")
    /\ last.relink
    /\ Path(2, 32) = <<<<"t", "o", "p">>, <<"m", "i", "d">>,
                       <<"d", "e", "e", "p">>>>
    /\ Name(2, 32) = <<"d", "e", "e", "p">>

(* ------------------------------------------------------------------ *)
(* C8                                                                  *)
(* ------------------------------------------------------------------ *)
\* the declared wrapper field a descriptor of type t's schema addresses
SlotAt(t, off) == CHOOSE s \in SlotTable[t] : s.off = off

DescriptorName(f) == heap[f.pathPtr][Len(heap[f.pathPtr])]

\* C8: in every cached schema, the name of each descriptor (the last
\* segment of its path) is the part of the field's tag value under the
\* schema's tag key before the first comma when that part is non-empty,
\* and the declared field name otherwise.
C8_EffectiveName ==
    \A t \in LinkTypes :
        Registered(t) =>
            \A k \in 1..Len(SchemaFields(t)) :
                LET f == SchemaFields(t)[k]
                IN /\ \E s \in SlotTable[t] : s.off = f.offset
                   /\ Len(heap[f.pathPtr]) > 0
                   /\ LET d == SlotAt(t, f.offset).chain[Depth(SlotAt(t, f.offset))]
                          v == DeclTag(d, KeyOf(t))
                      IN DescriptorName(f) =
                            IF Primary(v) # <<>> THEN Primary(v) ELSE d.name

\* Simple under json: F `json:"f,omitzero"` -> "f", Z `json:",omitzero"`
\* -> "Z", J (no tag) -> "J"; Level1 under db: Top has a json tag only
\* -> "Top"
C8_Witness ==
    /\ Registered("Simple") /\ KeyOf("Simple") = "json"
    /\ Registered("Level1") /\ KeyOf("Level1") = "db"
    /\ Len(SchemaFields("Simple")) = 4
    /\ DescriptorName(SchemaFields("Simple")[2]) = <<"f">>
    /\ DescriptorName(SchemaFields("Simple")[3]) = <<"Z">>
    /\ DescriptorName(SchemaFields("Simple")[4]) = <<"J">>
    /\ DescriptorName(SchemaFields("Level1")[1]) = <<"T", "o", "p">>

(* ------------------------------------------------------------------ *)
(* C9                                                                  *)
(* ------------------------------------------------------------------ *)
\* C9: after LoadLink and a successful Link on the root instance, Path()
\* of every linked field is the sequence of effective names from the root
\* to the field, in that order; its length is the field's nesting depth
\* and its last element is Name().
C9_PathMatchesNesting ==
    \A x \in AllLocs :
        (LastIs("Link", x, "true") /\ x[3] = 0) =>
            \A s \in SlotTable[x[1]] :
                s \in IncludedTable[x[1]][KeyOf(x[1])] =>
                    /\ Path(x[2], s.off) = ExpectedPath(s, KeyOf(x[1]))
                    /\ Len(Path(x[2], s.off)) = Depth(s)
                    /\ Path(x[2], s.off)[Depth(s)] = Name(x[2], s.off)

\* Level1 under json: ["top"], ["top","mid"], ["top","mid","deep"]
C9_Witness ==
    /\ LastIs("Link", <<"Level1", 2, 0>>, "true")
    /\ Path(2, 0) = <<<<"t", "o", "p">>>>
    /\ Path(2, 16) = <<<<"t", "o", "p">>, <<"m", "i", "d">>>>
    /\ Len(Path(2, 32)) = 3
    /\ Path(2, 32)[3] = <<"d", "e", "e", "p">>

(* ------------------------------------------------------------------ *)
(* C10                                                                 *)
(* ------------------------------------------------------------------ *)
\* s is tagged "-" under k, or lies in the Value of a wrapper field that is
OptedOut(s, k) == \E j \in 1..Len(s.chain) : DashTagged(s.chain[j], k)

NoOptedOutDescriptor ==
    \A t \in LinkTypes :
        Registered(t) =>
            \A s \in SlotTable[t] :
                OptedOut(s, KeyOf(t)) =>
                    \A k \in 1..Len(SchemaFields(t)) :
                        SchemaFields(t)[k].offset # s.off

RootLinkKeepsOptedOut ==
    (/\ last'.op \in {"Link", "LinkWithPath"} /\ last'.base = 0
     /\ Registered(last'.typ)) =>
        \A s \in SlotTable[last'.typ] :
            OptedOut(s, KeyOf(last'.typ)) =>
                mem'[last'.inst][s.off + StructField("Field_int", 1).offset] =
                    mem[last'.inst][s.off + StructField("Field_int", 1).offset]

\* C10: no cached schema has a descriptor for a wrapper field tagged "-"
\* under the schema's key, nor for any wrapper field inside the Value of
\* such a field, and no Link or LinkWithPath call on the root instance
\* changes the path slot of any of these fields (so a nil path stays nil).
C10_OptOutIsTotal ==
    [](NoOptedOutDescriptor) /\ [][RootLinkKeepsOptedOut]_vars

\* Simple under json, linked twice: Y (`json:"-"`) and Y.Value.A are
\* still nil while the sibling J after them is linked
C10_Witness ==
    /\ LastIs("Link", <<"Simple", 1, 0>>, "true")
    /\ last.relink
    /\ KeyOf("Simple") = "json"
    /\ OptedOut(SlotAt("Simple", 96), "json")
    /\ OptedOut(SlotAt("Simple", 112), "json")
    /\ PathSlot(1, 96) = Nil /\ PathSlot(1, 112) = Nil
    /\ Name(1, 136) = <<"J">>

(* ------------------------------------------------------------------ *)
(* C12                                                                 *)
(* ------------------------------------------------------------------ *)
\* C12: over any sequence of registration and link calls, a cache entry,
\* once stored for a type, is never replaced: every later step leaves the
\* entry of every cached type in place and pointing at the same schema.
C12_PopulatedAtMostOnce ==
    [][\A id \in DOMAIN cachedSchemaMap :
          /\ id \in DOMAIN cachedSchemaMap'
          /\ cachedSchemaMap'[id] = cachedSchemaMap[id]]_vars

(* ------------------------------------------------------------------ *)
(* C13                                                                 *)
(* ------------------------------------------------------------------ *)
\* what a Link through the cached schema of T gives: offset and path
\* content of every descriptor
SchemaNames(T) ==
    [k \in 1..Len(cachedSchemaMap[TypeID(T)].fields) |->
       <<cachedSchemaMap[TypeID(T)].fields[k].offset,
         heap[cachedSchemaMap[TypeID(T)].fields[k].pathPtr]>>]

\* C13: a LoadLink of a type already cached under key k1 with a different
\* key k2 leaves what Link gives for that type as it was: the names of
\* the k1 schema (the call is rejected, or the k2 schema is kept apart).
C13_OtherKeyKeepsNames ==
    [][\A T \in LoadTypes :
          (/\ Registered(T)
           /\ last'.op = "LoadLink" /\ last'.typ = T
           /\ last'.key # KeyOf(T)) =>
              /\ Registered(T)'
              /\ SchemaNames(T)' = SchemaNames(T)]_vars

(* ------------------------------------------------------------------ *)
(* C11                                                                 *)
(* ------------------------------------------------------------------ *)
\* two instances of one type hold the same path object in every wrapper
\* field that both have linked under the same tag key (the content of a
\* path is fixed by type and tag key, so equal content is the same key)
SameObjects ==
    \A i \in PairInsts, j \in PairInsts :
        InstType[i] = InstType[j] =>
            \A s \in SlotTable[InstType[i]] :
                (/\ PathSlot(i, s.off) # Nil /\ PathSlot(j, s.off) # Nil
                 /\ heap[PathSlot(i, s.off)] = heap[PathSlot(j, s.off)]) =>
                    PathSlot(i, s.off) = PathSlot(j, s.off)

\* no step changes the content of an existing path object
PathsKeepContent ==
    \A p \in DOMAIN heap : p \in DOMAIN heap' /\ heap'[p] = heap[p]

\* C11: in every reachable state two linked instances of the same type,
\* linked under one tag key, hold the identical path object in
\* corresponding fields, and no LoadLink, Link or LinkWithPath step changes
\* the content of a path object.
C11_SharedPathObjects == [](SameObjects) /\ [][PathsKeepContent]_vars

(* ------------------------------------------------------------------ *)
(* C17                                                                 *)
(* ------------------------------------------------------------------ *)
\* struct type T declares no wrapper field that key k includes
NoMatching(T, k) == {s \in SlotTable[T] : Included(s, k)} = {}

EmptySchemaOutcomes ==
    /\ (/\ last.op = "LoadLink" /\ last.typ \in LinkTypes
        /\ NoMatching(last.typ, last.key)) =>
           /\ last.ret = "nil"
           /\ Registered(last.typ)
           /\ cachedSchemaMap[TypeID(last.typ)] =
                 [fields |-> <<>>, TagKey |-> last.key]
    /\ (last.op = "LoadLink" /\ Kind(last.typ) # "struct") =>
           /\ last.ret # "nil"
           /\ ~Registered(last.typ)
    /\ (last.op = "Link" /\ ~Registered(last.typ)) => last.ret = "false"

EmptySchemaLinkIsNoOp ==
    (/\ last'.op = "Link" /\ Registered(last'.typ)
     /\ NoMatching(last'.typ, KeyOf(last'.typ))) =>
        /\ last'.ret = "true"
        /\ mem' = mem /\ heap' = heap /\ cachedSchemaMap' = cachedSchemaMap

\* C17: LoadLink on a struct type without matching wrapper fields returns
\* nil and caches a schema with no descriptors; a Link on an instance of
\* that type then returns true and changes nothing; LoadLink on a
\* non-struct type never returns nil and caches nothing, and Link on an
\* unregistered type returns false.
C17_EmptySchemaIsValid ==
    [](EmptySchemaOutcomes) /\ [][EmptySchemaLinkIsNoOp]_vars

\* Plain registered under json (its only wrapper field is tagged "-"),
\* then linked: true, nothing written
C17_Witness ==
    /\ LastIs("Link", <<"Plain", 7, 0>>, "true")
    /\ KeyOf("Plain") = "json"
    /\ cachedSchemaMap[TypeID("Plain")].fields = <<>>
    /\ \A o \in DOMAIN mem[7] : mem[7][o] = 0

(* ------------------------------------------------------------------ *)
(* C18                                                                 *)
(* ------------------------------------------------------------------ *)
\* the wrapper at offset off of instance i has no path: the reference is
\* nil or refers to a path without segments
Unlinked(i, off) ==
    PathSlot(i, off) = Nil \/ heap[PathSlot(i, off)] = <<>>

\* C18: for every wrapper field of every instance in every reachable
\* state, NoName() is true iff the field is unlinked, Name() is the empty
\* string iff NoName() is true, and otherwise Name() is the last segment of
\* the field's Path().
C18_NameAndNoName ==
    \A i \in Insts :
        \A s \in SlotTable[InstType[i]] :
            /\ NoName(i, s.off) <=> Unlinked(i, s.off)
            /\ (Name(i, s.off) = EmptyStr) <=> NoName(i, s.off)
            /\ ~NoName(i, s.off) =>
                  Name(i, s.off) = Path(i, s.off)[Len(Path(i, s.off))]

\* Simple linked under json: Z (`json:",omitzero"`) is named by its
\* declared name, Y (`json:"-"`) has no name; Level1 linked: Deep is
\* named by the last of three segments
C18_Witness ==
    /\ ~NoName(1, 72) /\ Name(1, 72) = <<"Z">>
    /\ NoName(1, 96) /\ Name(1, 96) = EmptyStr
    /\ ~NoName(2, 32) /\ Len(Path(2, 32)) = 3
    /\ Name(2, 32) = Path(2, 32)[3]

(* ------------------------------------------------------------------ *)
(* C19                                                                 *)
(* ------------------------------------------------------------------ *)
\* separators handed to FullName
Separators == {EmptyStr, <<".">>, <<"/">>, <<":", ":">>}

\* C19: for every wrapper field of every instance in every reachable
\* state and every separator, FullName(sep) is the segments of Path()
\* joined by sep, by "." when sep is empty (FullName("") = FullName(".")),
\* and the empty string when the field is unlinked.
C19_FullNameJoinsPath ==
    \A i \in Insts :
        \A s \in SlotTable[InstType[i]] :
            /\ \A sep \in Separators :
                  FullName(i, s.off, sep) =
                      JoinWith(Path(i, s.off),
                               IF sep = EmptyStr THEN <<".">> ELSE sep)
            /\ FullName(i, s.off, EmptyStr) = FullName(i, s.off, <<".">>)
            /\ PathSlot(i, s.off) = Nil =>
                  \A sep \in Separators : FullName(i, s.off, sep) = EmptyStr

\* Level1 linked under json: Deep joined by "/", by "::" and by the
\* default; TwinA never linked: empty
C19_Witness ==
    /\ Path(2, 32) = <<<<"t", "o", "p">>, <<"m", "i", "d">>,
                       <<"d", "e", "e", "p">>>>
    /\ FullName(2, 32, <<"/">>) =
          <<"t", "o", "p", "/", "m", "i", "d", "/", "d", "e", "e", "p">>
    /\ FullName(2, 32, EmptyStr) =
          <<"t", "o", "p", ".", "m", "i", "d", ".", "d", "e", "e", "p">>
    /\ FullName(2, 16, <<":", ":">>) =
          <<"t", "o", "p", ":", ":", "m", "i", "d">>
    /\ PathSlot(3, 0) = Nil /\ FullName(3, 0, <<"/">>) = EmptyStr

(* ------------------------------------------------------------------ *)
(* C20                                                                 *)
(* ------------------------------------------------------------------ *)
\* the Go value a representation stands for: an int, the bytes of a
\* string, and for a slice either nil or its elements
Denotes(vt, w) ==
    CASE vt = "string" -> StringBytes(w)
      [] vt = "slice_int" ->
           IF w[1] = Nil THEN "nil" ELSE SubSeq(IntData, 1, w[2])
      [] OTHER -> w[1]

\* the zero value of the type: 0, "", the nil slice
ZeroOf(vt) ==
    CASE vt = "string" -> <<>>
      [] vt = "slice_int" -> "nil"
      [] OTHER -> 0

\* C20: NoValue(), and IsZero() with it, is true exactly when the wrapped
\* Value is the zero value of its type (0, "", the nil slice), for Field[T]
\* and for FieldSlice, whether or not the field is linked.
C20_NoValueIffZero ==
    \A x \in ValueSlots :
        /\ NoValue(x[1], x[2], x[3]) <=>
              (Denotes(ValueType(x[1]), ValueOf(x[1], x[2], x[3])) =
                   ZeroOf(ValueType(x[1])))
        /\ IsZero(x[1], x[2], x[3]) = NoValue(x[1], x[2], x[3])

(* ------------------------------------------------------------------ *)
(* C14                                                                 *)
(* ------------------------------------------------------------------ *)
\* sch holds exactly one descriptor for every wrapper field of T that key
\* includes, with that field's offset and path
Complete(T, sch, key) ==
    /\ Len(sch.fields) = Cardinality({s \in SlotTable[T] : Included(s, key)})
    /\ \A s \in SlotTable[T] :
          Included(s, key) =>
              \E k \in 1..Len(sch.fields) :
                  /\ sch.fields[k].offset = s.off
                  /\ heap[sch.fields[k].pathPtr] = ExpectedPath(s, key)

\* C14: whenever a Link call has obtained a schema from the cache, that
\* schema holds the complete descriptor list of its type, also while other
\* goroutines are registering the type.
C14_NoTornSchema ==
    \A t \in Threads :
        threads[t].pc = "loop" =>
            \E key \in ConcKeys : Complete(threads[t].typ, threads[t].sch, key)

(* ------------------------------------------------------------------ *)
(* C15                                                                 *)
(* ------------------------------------------------------------------ *)
NoFatalOnDifferentTypes ==
    \A t1 \in Threads, t2 \in Threads :
        (/\ t1 # t2
         /\ threads[t1].op = "LoadLink" /\ threads[t2].op = "LoadLink"
         /\ threads[t1].typ # threads[t2].typ) =>
            threads[t1].pc # "fatal"

StoreKept ==
    \A t \in Threads :
        (/\ threads[t].pc = "storing" /\ threads'[t].pc = "idle"
         /\ threads[t].typ \notin threads[t].raced) =>
            /\ TypeID(threads[t].typ) \in DOMAIN cachedSchemaMap'
            /\ cachedSchemaMap'[TypeID(threads[t].typ)] = threads[t].sch
            /\ \E key \in ConcKeys :
                  Complete(threads[t].typ, threads[t].sch, key)

\* C15: when LoadLink calls for different struct types run concurrently,
\* none of them ends in a fatal error, and when one of them returns the
\* cache holds the complete schema it built for its type.
C15_ConcurrentRegistration ==
    [](NoFatalOnDifferentTypes) /\ [][StoreKept]_vars

(* ------------------------------------------------------------------ *)
(* C16                                                                 *)
(* ------------------------------------------------------------------ *)
\* a Link or LinkWithPath call that began after every LoadLink had
\* returned, with none begun since, works on the cached schema, and when
\* it is about to return true its instance holds that schema's path
\* pointer in every described field
LinkReturnsLinked ==
    \A t \in Threads :
        (threads[t].pc = "loop" /\ threads[t].quiet) =>
            /\ threads[t].op \in {"Link", "LinkWithPath"}
            /\ Registered(threads[t].typ)
            /\ threads[t].sch = cachedSchemaMap[TypeID(threads[t].typ)]
            /\ threads[t].k > Len(threads[t].sch.fields) =>
                  Linked(threads[t].typ, threads[t].inst, 0)

\* the steps of Link and of LinkWithPath (the lookup, every store of the
\* loop, the return) leave the cache, the schemas and the path objects
\* alone
LinkNeverWrites ==
    (\E t \in Threads :
        \/ /\ threads[t].pc = "loop"
           /\ threads[t].op \in {"Link", "LinkWithPath"}
           /\ threads'[t].k # threads[t].k \/ threads'[t].pc = "idle"
        \/ /\ threads[t].pc = "idle"
           /\ threads'[t].op \in {"Link", "LinkWithPath"}) =>
        /\ cachedSchemaMap' = cachedSchemaMap
        /\ heap' = heap

\* C16: no step of Link or LinkWithPath writes to the schema cache, a
\* schema or a path object, and once every LoadLink has returned, goroutines that link
\* distinct instances of a registered type at the same time each end with
\* their own instance fully linked to the cached schema, in every
\* interleaving of their stores.
C16_ConcurrentLinksComplete ==
    [](LinkReturnsLinked) /\ [][LinkNeverWrites]_vars

\* two goroutines, one inside Link and one inside LinkWithPath, at the
\* same time on the two Level1 instances, both past their last store and
\* about to return true
C16_Witness ==
    /\ threads[1].pc = "loop" /\ threads[2].pc = "loop"
    /\ threads[1].op = "Link" /\ threads[2].op = "LinkWithPath"
    /\ threads[1].quiet /\ threads[2].quiet
    /\ threads[1].inst = 9 /\ threads[2].inst = 10
    /\ threads[1].k = 4 /\ threads[2].k = 4
    /\ Len(cachedSchemaMap[TypeID("Level1")].fields) = 3
    /\ Linked("Level1", 9, 0) /\ Linked("Level1", 10, 0)
    /\ Name(9, 32) = <<"d", "e", "e", "p">>
    /\ Name(10, 32) = <<"d", "e", "e", "p">>

(* ------------------------------------------------------------------ *)
(* C21                                                                 *)
(* ------------------------------------------------------------------ *)
\* two wrapped values of one type are equal
SameValue(wt, v, w) ==
    IF ValueType(wt) = "slice_int" THEN v = w ELSE GoEqual(ValueType(wt), v, w)

\* wrapper fields of equal Value marshal to the same bytes, whatever their
\* path slots hold
EqualValueEqualBytes ==
    \A x \in MarshalSlots, y \in MarshalSlots :
        (/\ x[1] = y[1]
         /\ SameValue(x[1], ValueOf(x[1], x[2], x[3]), ValueOf(y[1], y[2], y[3])))
        => /\ MarshalJSON(x[1], Receiver(x[1], x[2], x[3])) =
                 MarshalJSON(y[1], Receiver(y[1], y[2], y[3]))
           /\ MarshalText(x[1], Receiver(x[1], x[2], x[3])) =
                 MarshalText(y[1], Receiver(y[1], y[2], y[3]))

\* the link states of a wrapper: no path, a path, a path and a parent
\* path
LinkStates == {<<Nil, Nil>>, <<Len(heap), Nil>>, <<Len(heap), Len(heap)>>}

\* the bytes do not change when the receiver is put into another link
\* state
LinkStateIgnored ==
    \A x \in MarshalSlots :
        \A ls \in LinkStates :
            LET f == Receiver(x[1], x[2], x[3])
                g == [f EXCEPT !.path = ls[1], !.parentPath = ls[2]]
            IN /\ MarshalJSON(x[1], g) = MarshalJSON(x[1], f)
               /\ MarshalText(x[1], g) = MarshalText(x[1], f)

s_f2test ==
    <<"{", Quote, "f", "2", Quote, ":", Quote, "t", "e", "s", "t", Quote, "}">>

\* the struct with F1 = 0 (`json:"f1,omitzero"`) and F2 = "test"
\* (`json:"f2"`) serializes to {"f2":"test"}
OmitZeroExample ==
    \A i \in MarshalInsts :
        (/\ InstType[i] = "Sample"
         /\ last.op = "Marshal" /\ last.inst = i
         /\ ValueOf("Field_int", i, StructField("Sample", 1).offset) = <<0>>
         /\ StringBytes(ValueOf("Field_string", i,
                                StructField("Sample", 2).offset)) =
               <<"t", "e", "s", "t">>)
        => last.out = s_f2test

\* C21: MarshalJSON and MarshalText of a wrapper depend only on its Value:
\* fields of equal Value marshal identically whether their path is nil or
\* linked and whatever the parent path is, and the struct with F1 = wrapped
\* 0 tagged "f1,omitzero" and F2 = wrapped "test" tagged "f2" marshals to
\* {"f2":"test"}.
C21_MarshalTransparent ==
    EqualValueEqualBytes /\ LinkStateIgnored /\ OmitZeroExample

\* the linked Sample instance with F1 = 0 and F2 = "test" has been
\* marshaled to {"f2":"test"}, while the I field of the other instance
\* holds the same int and has no path
C21_Witness ==
    /\ last.op = "Marshal" /\ last.inst = 11 /\ last.out = s_f2test
    /\ Linked("Sample", 11, 0)
    /\ PathSlot(11, 0) # Nil /\ PathSlot(11, 24) # Nil
    /\ ValueOf("Field_int", 11, 0) = <<0>>
    /\ PathSlot(12, 0) = Nil /\ ValueOf("Field_int", 12, 0) = <<0>>
    /\ MarshalJSON("Field_int", Receiver("Field_int", 11, 0)) = <<"0">>

(* ------------------------------------------------------------------ *)
(* C28                                                                 *)
(* ------------------------------------------------------------------ *)
\* an UnmarshalJSON or UnmarshalText step on wrapper x writes nothing but
\* the Value of x (every other word of every instance, the path objects
\* and the cache are as before), so that x keeps its path and parentPath
\* references and reports the same Name(), Path() and FullName()
UnmarshalWritesValueOnly ==
    \A x \in MarshalSlots :
        (/\ last'.op \in {"UnmarshalJSON", "UnmarshalText"}
         /\ last'.typ = x[1] /\ last'.inst = x[2] /\ last'.base = x[3])
        => /\ \A i \in AllInsts \ {x[2]} : mem'[i] = mem[i]
           /\ \A o \in DOMAIN mem[x[2]] :
                 (\/ o < x[3] + StructField(x[1], 3).offset
                  \/ o >= x[3] + Sizeof(x[1]))
                 => mem'[x[2]][o] = mem[x[2]][o]
           /\ heap' = heap
           /\ cachedSchemaMap' = cachedSchemaMap
           /\ PathSlot(x[2], x[3])' = PathSlot(x[2], x[3])
           /\ ParentPathSlot(x[2], x[3])' = ParentPathSlot(x[2], x[3])
           /\ Name(x[2], x[3])' = Name(x[2], x[3])
           /\ Path(x[2], x[3])' = Path(x[2], x[3])
           /\ FullName(x[2], x[3], <<".">>)' = FullName(x[2], x[3], <<".">>)
           /\ NoName(x[2], x[3])' = NoName(x[2], x[3])

\* C28: UnmarshalJSON and UnmarshalText on a wrapper field modify only its
\* Value: path and parentPath are unchanged, a linked field reports the
\* same Name(), Path() and FullName() as before, and an unlinked field
\* stays unlinked.
C28_UnmarshalKeepsLink == [][UnmarshalWritesValueOnly]_vars

\* "test" has been decoded into the linked F2 of the Sample instance,
\* which is still named f2, and [7] into the unlinked L of the other
\* instance, which still has no path
C28_Witness ==
    /\ last.op = "UnmarshalJSON" /\ last.inst = 11 /\ last.base = 24
    /\ last.ret = "nil"
    /\ Linked("Sample", 11, 0)
    /\ ValueOf("Field_string", 11, 24) = <<DataAddr, 4>>
    /\ Name(11, 24) = <<"f", "2">>
    /\ ValueOf("FieldSlice_int", 12, 56) = <<DataAddr, 1, 1>>
    /\ PathSlot(12, 56) = Nil /\ NoName(12, 56)

(* ------------------------------------------------------------------ *)
(* C22                                                                 *)
(* ------------------------------------------------------------------ *)
\* the offsets along the nesting chain of wrapper field s: the offset of
\* every declared field of the chain, and between two of them the offset
\* of the Value slot of the enclosing wrapper
RECURSIVE ChainSum(_, _)
ChainSum(chain, j) ==
    IF j > Len(chain) THEN 0
    ELSE chain[j].offset +
         (IF j < Len(chain) THEN StructField(chain[j].type, 3).offset ELSE 0) +
         ChainSum(chain, j + 1)

ChainOffset(s) == ChainSum(s.chain, 1)

\* for every type, the wrapper fields by the sum of their chain offsets
ChainOffsetTable ==
    [t \in LinkTypes |->
       [o \in {ChainOffset(s) : s \in SlotTable[t]} |->
          {s \in SlotTable[t] : ChainOffset(s) = o}]]

\* the wrapper fields of t whose chain offsets sum to o
FieldsAtChainOffset(t, o) ==
    IF o \in DOMAIN ChainOffsetTable[t] THEN ChainOffsetTable[t][o] ELSE {}

\* for every type and tag key, the expected path of every wrapper field,
\* by the field's offset
ExpectedPathTable ==
    [t \in LinkTypes |->
       [k \in TagKeys |->
          [o \in {s.off : s \in SlotTable[t]} |->
             ExpectedPath(SlotAt(t, o), k)]]]

\* every descriptor of every cached schema addresses the path slot of
\* exactly one wrapper field of its type, an included one, whose chain
\* offsets sum to the descriptor's offset and whose path it carries; two
\* descriptors never address the same field
OffsetsAreChainSums ==
    \A t \in LinkTypes :
        Registered(t) =>
            /\ \A k \in 1..Len(SchemaFields(t)) :
                  LET f == SchemaFields(t)[k]
                      hit == FieldsAtChainOffset(t, f.offset)
                  IN /\ Cardinality(hit) = 1
                     /\ \A s \in hit :
                           /\ s \in IncludedTable[t][KeyOf(t)]
                           /\ f.offset + StructField(s.chain[Depth(s)].type, 1).offset
                                 = s.off
                           /\ heap[f.pathPtr] =
                                 ExpectedPathTable[t][KeyOf(t)][s.off]
            /\ \A k1 \in 1..Len(SchemaFields(t)), k2 \in 1..Len(SchemaFields(t)) :
                  k1 # k2 =>
                      SchemaFields(t)[k1].offset # SchemaFields(t)[k2].offset

\* the words of a T that hold the path slot of a wrapper field included
\* under key
PathWordsTable ==
    [t \in LinkTypes |->
       [k \in TagKeys |-> {s.off : s \in IncludedTable[t][k]}]]
PathWords(T, key) == PathWordsTable[T][key]

\* a successful Link on the T at x changes no word of any instance but
\* those path slots: parentPath slots, the words of every Value that are
\* not such a slot, fields that are no wrappers and excluded wrapper
\* fields are as before
LinkWritesOnlyPathSlots ==
    \A x \in NestLocs :
        (/\ last'.op = "Link" /\ last'.ret = "true"
         /\ last'.typ = x[1] /\ last'.inst = x[2] /\ last'.base = x[3])
        => /\ \A i \in AllInsts \ {x[2]} : mem'[i] = mem[i]
           /\ \A o \in DOMAIN mem[x[2]] :
                 (o - x[3]) \notin PathWords(x[1], KeyOf(x[1])) =>
                     mem'[x[2]][o] = mem[x[2]][o]
           /\ \A s \in SlotTable[x[1]] :
                 /\ ParentPathSlot(x[2], x[3] + s.off)' =
                       ParentPathSlot(x[2], x[3] + s.off)
                 /\ s \notin IncludedTable[x[1]][KeyOf(x[1])] =>
                       PathSlot(x[2], x[3] + s.off)' =
                           PathSlot(x[2], x[3] + s.off)
                 /\ Kind(ValueType(s.chain[Depth(s)].type)) # "struct" =>
                       ValueOf(s.chain[Depth(s)].type, x[2], x[3] + s.off)' =
                           ValueOf(s.chain[Depth(s)].type, x[2], x[3] + s.off)
           /\ \A k \in 1..Len(SchemaFields(x[1])) :
                 PathSlot(x[2], x[3] + SchemaFields(x[1])[k].offset)' =
                     SchemaFields(x[1])[k].pathPtr

\* C22: every descriptor's offset is the sum of the field offsets and
\* Value-slot offsets along its nesting chain, so that base + offset is the
\* path slot of exactly one wrapper field (distinct descriptors address
\* distinct fields), and a successful Link writes these path slots only:
\* every other word of the instance (Values, parentPath slots, fields that
\* are no wrappers, excluded wrapper fields) is unchanged.
C22_OffsetsAddressPathSlots ==
    [](OffsetsAreChainSums) /\ [][LinkWritesOnlyPathSlots]_vars

\* Level1 under json has descriptors at 0, 16 and 32 (0 + 16 + 0 + 16 + 0)
\* and Holder at 0, 96 and 112; the Holder instance has just been linked:
\* N, W and W.Value.A hold a path, X (`json:"-"`) and P.A do not
C22_Witness ==
    /\ LastIs("Link", <<"Holder", 14, 0>>, "true")
    /\ KeyOf("Holder") = "json"
    /\ Registered("Level1")
    /\ [k \in 1..3 |-> SchemaFields("Level1")[k].offset] = <<0, 16, 32>>
    /\ [k \in 1..3 |-> SchemaFields("Holder")[k].offset] = <<0, 96, 112>>
    /\ PathSlot(14, 0) # Nil /\ PathSlot(14, 96) # Nil
    /\ PathSlot(14, 112) # Nil
    /\ PathSlot(14, 136) = Nil /\ PathSlot(14, 40) = Nil

(* ------------------------------------------------------------------ *)
(* C23                                                                 *)
(* ------------------------------------------------------------------ *)
\* the position of the field named n in the declaration of struct type t
DeclIndex(t, n) == CHOOSE i \in 1..NumField(t) : StructField(t, i).name = n

\* the declaration positions along a chain that starts in struct type t
RECURSIVE IndexPath(_, _)
IndexPath(t, chain) ==
    IF Len(chain) = 0 THEN <<>>
    ELSE <<DeclIndex(t, chain[1].name)>> \o
         IndexPath(ValueType(chain[1].type), Tail(chain))

\* p is a proper prefix of q
IsPrefix(p, q) == Len(p) < Len(q) /\ SubSeq(q, 1, Len(p)) = p

\* p comes before q in a depth-first walk in declaration order: an
\* enclosing field before the fields nested in it, and otherwise the one
\* that is declared first where the two part
DepthFirstBefore(p, q) ==
    \/ IsPrefix(p, q)
    \/ \E j \in 1..Len(p) :
          /\ j <= Len(q)
          /\ SubSeq(p, 1, j - 1) = SubSeq(q, 1, j - 1)
          /\ p[j] < q[j]

\* the declaration positions of every wrapper field of every type, by the
\* field's offset
IndexPathTable ==
    [t \in LinkTypes |->
       [o \in {s.off : s \in SlotTable[t]} |->
          IndexPath(t, SlotAt(t, o).chain)]]

\* the declaration positions of the wrapper field that descriptor k of the
\* schema of t addresses
DescriptorIndexPath(t, k) == IndexPathTable[t][SchemaFields(t)[k].offset]

\* C23: the descriptors of every cached schema are in declaration order,
\* depth-first: between the descriptor of a wrapper field and the
\* descriptor of any field nested in its Value there are only descriptors
\* of fields nested in it, those come directly after it, and the
\* descriptor of a later sibling comes after all of them.
C23_DeclarationOrderDepthFirst ==
    \A t \in LinkTypes :
        Registered(t) =>
            /\ Len(SchemaFields(t)) = Cardinality(IncludedTable[t][KeyOf(t)])
            /\ \A k1 \in 1..Len(SchemaFields(t)), k2 \in 1..Len(SchemaFields(t)) :
                  k1 < k2 =>
                      /\ DepthFirstBefore(DescriptorIndexPath(t, k1),
                                          DescriptorIndexPath(t, k2))
                      /\ \A k3 \in 1..Len(SchemaFields(t)) :
                            (/\ k2 < k3
                             /\ IsPrefix(DescriptorIndexPath(t, k1),
                                         DescriptorIndexPath(t, k3)))
                            => IsPrefix(DescriptorIndexPath(t, k1),
                                        DescriptorIndexPath(t, k2))
            /\ \A k \in 1..Len(SchemaFields(t)) :
                  Len(DescriptorIndexPath(t, k)) > 1 =>
                      /\ k > 1
                      /\ \/ IsPrefix(DescriptorIndexPath(t, k - 1),
                                     DescriptorIndexPath(t, k))
                         \/ \E j \in 1..(k - 2) :
                               /\ IsPrefix(DescriptorIndexPath(t, j),
                                           DescriptorIndexPath(t, k))
                               /\ IsPrefix(DescriptorIndexPath(t, j),
                                           DescriptorIndexPath(t, k - 1))

\* Holder under db: N, W, the A nested in W, and only then the sibling X
\* declared after W; Level1: Top, Mid, Deep
C23_Witness ==
    /\ Registered("Holder") /\ KeyOf("Holder") = "db"
    /\ [k \in 1..4 |-> DescriptorIndexPath("Holder", k)] =
          <<<<1>>, <<5>>, <<5, 1>>, <<6>>>>
    /\ [k \in 1..4 |-> heap[SchemaFields("Holder")[k].pathPtr]] =
          <<<<<<"N">>>>, <<<<"W">>>>, <<<<"W">>, <<"A">>>>, <<<<"X">>>>>>
    /\ Registered("Level1")
    /\ [k \in 1..3 |-> DescriptorIndexPath("Level1", k)] =
          <<<<1>>, <<1, 1>>, <<1, 1, 1>>>>

(* ------------------------------------------------------------------ *)
(* C24                                                                 *)
(* ------------------------------------------------------------------ *)
\* fieldHeader is laid out as the beginning of wrapper type wt: slot by
\* slot the same name, type, offset and width, path first at offset 0, and
\* all of it before Value
HeaderIsPrefixOf(wt) ==
    /\ StructField("fieldHeader", 1).name = s_path
    /\ StructField("fieldHeader", 1).offset = 0
    /\ StructField(wt, 1).offset = 0
    /\ NumField("fieldHeader") < NumField(wt)
    /\ \A i \in 1..NumField("fieldHeader") :
          /\ StructField(wt, i).name = StructField("fieldHeader", i).name
          /\ StructField(wt, i).type = StructField("fieldHeader", i).type
          /\ StructField(wt, i).offset = StructField("fieldHeader", i).offset
          /\ Sizeof(StructField(wt, i).type) =
                Sizeof(StructField("fieldHeader", i).type)
    /\ StructField(wt, NumField("fieldHeader") + 1).name = s_Value
    /\ Sizeof("fieldHeader") <= StructField(wt, NumField("fieldHeader") + 1).offset

HeaderIsPrefix == \A wt \in WrapperTypes : HeaderIsPrefixOf(wt)

\* for every wrapper field of every type, by its offset, where its Value
\* begins
ValueStartTable ==
    [t \in LinkTypes |->
       [o \in {s.off : s \in SlotTable[t]} |->
          o + StructField(SlotAt(t, o).chain[Depth(SlotAt(t, o))].type, 3).offset]]

\* the slots the linker writes through are those of fieldHeader, and the
\* header view laid over the field a cached descriptor addresses ends
\* before that field's Value
HeaderViewBeforeValue ==
    /\ HeaderPath = StructField("fieldHeader", 1).offset
    /\ HeaderParentPath = StructField("fieldHeader", 2).offset
    /\ \A t \in LinkTypes :
          Registered(t) =>
              \A k \in 1..Len(SchemaFields(t)) :
                  SchemaFields(t)[k].offset + Sizeof("fieldHeader") <=
                      ValueStartTable[t][SchemaFields(t)[k].offset]

\* C24: the layout of fieldHeader is a prefix of the layout of Field and
\* of FieldSlice at every instantiation: path at offset 0 in both, every
\* header slot at the offset and of the width of the wrapper's slot at
\* that position, and the header no larger than the part of the wrapper
\* before Value, so a write through the header does not reach Value.
C24_HeaderIsLayoutPrefix == HeaderIsPrefix /\ HeaderViewBeforeValue

\* Holder linked: a FieldSlice (N) and a Field (W) were written through the
\* 16-byte header, their Values start at byte 16 of the wrapper
C24_Witness ==
    /\ LastIs("Link", <<"Holder", 14, 0>>, "true")
    /\ Sizeof("fieldHeader") = 16
    /\ StructField("FieldSlice_Inner", 3).offset = 16
    /\ StructField("Field_Inner", 3).offset = 16
    /\ PathSlot(14, 0) # Nil /\ ParentPathSlot(14, 0) = Nil
    /\ ValueOf("FieldSlice_Inner", 14, 0) = <<0, 0, 0>>
    /\ PathSlot(14, 96) # Nil /\ ParentPathSlot(14, 96) = Nil

(* ------------------------------------------------------------------ *)
(* C27                                                                 *)
(* ------------------------------------------------------------------ *)
\* a successful Link on the T at x stores, into every word one of T's
\* descriptors addresses, that descriptor's path, whatever the word held,
\* and keeps every other word; a LoadLink and a failed Link write to no
\* instance. So a path slot always holds what the latest Link covering it
\* stored.
LatestCoveringLinkWins ==
    /\ \A x \in NestLocs :
          (/\ last'.op = "Link" /\ last'.ret = "true"
           /\ last'.typ = x[1] /\ last'.inst = x[2] /\ last'.base = x[3])
          => \A o \in DOMAIN mem[x[2]] :
                LET ds == {k \in 1..Len(SchemaFields(x[1])) :
                              x[3] + SchemaFields(x[1])[k].offset = o}
                IN IF ds = {} THEN mem'[x[2]][o] = mem[x[2]][o]
                   ELSE \A k \in ds :
                           mem'[x[2]][o] = SchemaFields(x[1])[k].pathPtr
    /\ (\/ last'.op = "LoadLink"
        \/ last'.op = "Link" /\ last'.ret # "true") => mem' = mem

\* after a successful Link on the T at x, every included wrapper field of
\* that T has the path relative to T: linked through the outer struct the
\* nested fields have the hierarchical path, linked directly the inner
\* type's own
PathsRelativeToLinkedRoot ==
    \A x \in NestLocs :
        LastIs("Link", x, "true") =>
            \A s \in IncludedTable[x[1]][KeyOf(x[1])] :
                Path(x[2], x[3] + s.off) =
                    ExpectedPathTable[x[1]][KeyOf(x[1])][s.off]

\* C27: the path of a wrapper field is the one written by the most recent
\* successful Link whose schema covers the field's address: a Link on the
\* nested struct value of a linked outer instance replaces the nested
\* fields' hierarchical paths by the inner type's root-relative paths, and
\* a following Link on the outer instance restores them.
C27_LatestLinkDecidesPath ==
    [](PathsRelativeToLinkedRoot) /\ [][LatestCoveringLinkWins]_vars

\* Holder and Inner registered under json; the Holder instance was linked
\* (W holds ["w"]) and then Link was applied to its W.Value: the nested A
\* now has the path ["a"] in place of ["w","a"]
C27_Witness ==
    /\ LastIs("Link", <<"Inner", 14, 112>>, "true")
    /\ KeyOf("Inner") = "json"
    /\ Registered("Holder") /\ KeyOf("Holder") = "json"
    /\ Path(14, 96) = <<<<"w">>>>
    /\ Path(14, 112) = <<<<"a">>>>
    /\ heap[SchemaFields("Holder")[3].pathPtr] = <<<<"w">>, <<"a">>>>
    /\ SchemaFields("Holder")[3].offset = 112
    /\ PathSlot(14, 112) # SchemaFields("Holder")[3].pathPtr

(* ------------------------------------------------------------------ *)
(* C29                                                                 *)
(* ------------------------------------------------------------------ *)
\* the wrapper fields that lie in the memory of a t at offset base behind
\* at least one struct-typed field that is no wrapper: their offsets.
\* plain tells whether such a field was passed on the way.
RECURSIVE BehindPlain(_, _, _)
BehindPlain(t, base, plain) ==
    UNION {LET f == StructField(t, k)
           IN IF f.type \in WrapperTypes THEN
                  (IF plain THEN {base + f.offset} ELSE {}) \cup
                  (IF Kind(ValueType(f.type)) = "struct"
                   THEN BehindPlain(ValueType(f.type),
                                    base + f.offset + StructField(f.type, 3).offset,
                                    plain)
                   ELSE {})
              ELSE IF Kind(f.type) = "struct" THEN
                  BehindPlain(f.type, base + f.offset, TRUE)
              ELSE {} : k \in 1..NumField(t)}

\* the fields of t that refer to structs outside the memory of t: pointers
\* and slices, the Value of a FieldSlice included; their offsets
RECURSIVE RefWords(_, _)
RefWords(t, base) ==
    UNION {LET f == StructField(t, k)
           IN IF Kind(f.type) \in {"ptr", "slice"} /\ f.type # SliceStringPtrType
              THEN {base + f.offset}
              ELSE IF Kind(f.type) = "struct"
              THEN RefWords(f.type, base + f.offset)
              ELSE {} : k \in 1..NumField(t)}

BehindPlainTable == [t \in LinkTypes |-> BehindPlain(t, 0, FALSE)]
RefWordsTable == [t \in LinkTypes |-> RefWords(t, 0)]

\* the instances the struct in instance i refers to
Referred(i) ==
    {j \in NestInsts :
        \E o \in RefWordsTable[InstType[i]] : mem[i][o] = InstAddr(j)}

\* no cached schema has a descriptor for a wrapper field behind a plain
\* struct field, and a schema has no more descriptors than its type has
\* wrapper fields nested through Values only
NoDescriptorBehindPlain ==
    \A t \in LinkTypes :
        Registered(t) =>
            /\ \A k \in 1..Len(SchemaFields(t)) :
                  /\ SchemaFields(t)[k].offset \notin BehindPlainTable[t]
                  /\ \E s \in SlotTable[t] : s.off = SchemaFields(t)[k].offset
            /\ Len(SchemaFields(t)) <= Cardinality(SlotTable[t])

\* until their own type is registered, and so cannot have been linked
\* directly, the wrapper fields behind the plain field P of the Holder
\* and in the Inner its pointer and slices refer to have no path, however
\* often the Holder was linked
UnreachedStayUnlinked ==
    \A i \in NestInsts :
        (InstType[i] = "Holder" /\ ~Registered("Inner")) =>
            /\ \A o \in BehindPlainTable["Holder"] :
                  PathSlot(i, o) = Nil /\ NoName(i, o)
            /\ \A j \in Referred(i) :
                  \A s \in SlotTable[InstType[j]] :
                      PathSlot(j, s.off) = Nil /\ NoName(j, s.off)

\* a Link on a root instance writes neither to the wrapper fields behind
\* its plain struct fields nor to the structs it refers to
RootLinkSkipsUnreached ==
    \A x \in NestLocs :
        (/\ last'.op = "Link" /\ last'.typ = x[1] /\ last'.inst = x[2]
         /\ last'.base = x[3] /\ x[3] = 0)
        => /\ \A o \in BehindPlainTable[x[1]] :
                 PathSlot(x[2], o)' = PathSlot(x[2], o)
           /\ \A j \in Referred(x[2]) \ {x[2]} : mem'[j] = mem[j]

\* C29: the schema builder descends only through the Value of a matched
\* wrapper field whose Value is a struct: a wrapper field that can only be
\* reached through a plain struct-typed field, a pointer or the elements of
\* a slice (the Value of a FieldSlice included) has no descriptor and is
\* still unlinked after Link on the root instance.
C29_OnlyWrapperValuesDescended ==
    [](NoDescriptorBehindPlain /\ UnreachedStayUnlinked)
    /\ [][RootLinkSkipsUnreached]_vars

\* the Holder refers to the Inner instance through Q, R and N.Value and
\* has just been linked under json: N, W and W.Value.A have a path, while
\* P.A (behind the plain P) and the A of the Inner referred to have none
C29_Witness ==
    /\ LastIs("Link", <<"Holder", 14, 0>>, "true")
    /\ KeyOf("Holder") = "json"
    /\ ~Registered("Inner")
    /\ Referred(14) = {15}
    /\ RefWordsTable["Holder"] = {16, 64, 72}
    /\ BehindPlainTable["Holder"] = {40}
    /\ Len(SchemaFields("Holder")) = 3
    /\ Name(14, 0) = <<"n">> /\ Name(14, 112) = <<"a">>
    /\ PathSlot(14, 40) = Nil /\ PathSlot(15, 0) = Nil

(* ------------------------------------------------------------------ *)
(* C30                                                                 *)
(* ------------------------------------------------------------------ *)
\* the wrapper at offset off of instance i is linked without a parent path
LinkedNoParent(i, off) ==
    PathSlot(i, off) # Nil /\ ParentPathSlot(i, off) = Nil

\* Path() of a field linked without a parent path is the path object's own
\* array, and for two linked instances of one type it is the same array
PathIsSharedObject ==
    \A i \in AliasInsts, j \in AliasInsts :
        \A s \in SlotTable[InstType[i]] :
            (/\ InstType[i] = InstType[j]
             /\ LinkedNoParent(i, s.off) /\ LinkedNoParent(j, s.off))
            => /\ PathArray(i, s.off) = PathSlot(i, s.off)
               /\ PathArray(i, s.off) = PathArray(j, s.off)

\* an element write through the slice Path() returned for a field of one
\* instance shows in Path() and Name() of that field in every linked
\* instance of the type
WriteSeenByAll ==
    \A i \in AliasInsts, j \in AliasInsts :
        \A s \in SlotTable[InstType[i]] :
            (/\ last'.op = "PathElemWrite" /\ last'.inst = i
             /\ last'.base = s.off
             /\ InstType[i] = InstType[j]
             /\ LinkedNoParent(j, s.off))
            => /\ Path(j, s.off)'[1] = last'.out
               /\ Name(j, s.off)' = Path(j, s.off)'[Len(Path(j, s.off)')]
               /\ Path(j, s.off)' = Path(i, s.off)'

\* C30: for a field linked without a parent path, Path() returns the
\* schema's own segment sequence, not a copy: for any two linked instances
\* of a type it is the same object in corresponding fields, and an element
\* write through it is observed by Name() and Path() of every other linked
\* instance of the type.
C30_PathAliasesSchema == [](PathIsSharedObject) /\ [][WriteSeenByAll]_vars

(* ------------------------------------------------------------------ *)
(* C25                                                                 *)
(* ------------------------------------------------------------------ *)
\* the wrapper types of linker.go
Wrapper1Types == {"Field1_int", "Field1_string", "Field1_LazyIn"}

\* every wrapper field inside a value of type t at offset base, with the
\* chain of declared fields leading to it, for the wrappers of linker.go
RECURSIVE LazySlots(_, _, _)
LazySlots(t, base, chain) ==
    UNION {LET f == StructField(t, k)
               c == Append(chain, f)
               v == StructField(f.type, 2)
           IN IF f.type \in Wrapper1Types
              THEN {[off |-> base + f.offset, chain |-> c]} \cup
                   (IF Kind(v.type) = "struct"
                    THEN LazySlots(v.type, base + f.offset + v.offset, c)
                    ELSE {})
              ELSE {} : k \in 1..NumField(t)}

LazyStructs == {"Lazy", "LazyIn"}
LazySlotTable == [t \in LazyStructs |-> LazySlots(t, 0, <<>>)]

\* for every wrapper field of type t: whether tag key k includes it and
\* the path the declarations give it under k
LazyExpectedTable ==
    [t \in LazyStructs |->
       [k \in TagKeys |->
          {[off |-> s.off, included |-> Included(s, k),
            path |-> ExpectedPath(s, k)] : s \in LazySlotTable[t]}]]

\* a Link(s, k2) that finds a schema cached under another key k1 returns
\* normally, leaves the cache alone, and gives every field the path
\* that k1 derives; a field that k1 leaves out is not written
OtherKeyLinksOldNames ==
    \A x \in {y \in LazyLocs : y[1] \in LazyStructs} :
        (/\ last'.op = "Link2" /\ last'.typ = x[1]
         /\ last'.inst = x[2] /\ last'.base = x[3]
         /\ TypeID(x[1]) \in DOMAIN genericSchemaCache
         /\ genericSchemaCache[TypeID(x[1])].TagKey # last'.key)
        => /\ last'.ret = "done"
           /\ genericSchemaCache' = genericSchemaCache
           /\ heap' = heap
           /\ \A e \in LazyExpectedTable[x[1]]
                         [genericSchemaCache[TypeID(x[1])].TagKey] :
                 IF e.included
                 THEN /\ mem'[x[2]][x[3] + e.off] # Nil
                      /\ heap'[mem'[x[2]][x[3] + e.off]] = e.path
                 ELSE mem'[x[2]][x[3] + e.off] = mem[x[2]][x[3] + e.off]

\* C25: in the lazy Link(s, tagKey) the tag key is used only when the
\* schema is first built: once a schema of the type is cached under k1,
\* every later Link(s, k2) with k2 # k1 completes without error or panic
\* and assigns the names derived from k1, never those derived from k2.
C25_LazyLinkIgnoresLaterKey == [][OtherKeyLinksOldNames]_vars

\* a Lazy first linked under json is linked again under db: A keeps the
\* json name "a" (db gives "x"), and C, which db leaves out, is linked
C25_Witness ==
    /\ last.op = "Link2" /\ last.typ = "Lazy" /\ last.key = "db"
    /\ last.ret = "done"
    /\ TypeID("Lazy") \in DOMAIN genericSchemaCache
    /\ genericSchemaCache[TypeID("Lazy")].TagKey = "json"
    /\ Name(last.inst, 0) = <<"a">>
    /\ Name(last.inst, StructField("Lazy", 3).offset) = <<"C">>

(* ------------------------------------------------------------------ *)
(* C26                                                                 *)
(* ------------------------------------------------------------------ *)
\* the schema sch is the complete schema of type t under key k: one
\* descriptor for every included wrapper field, with the declared path
CompleteSchema(sch, t, k) ==
    /\ sch.TagKey = k
    /\ {[off |-> sch.fields[j].offset, path |-> heap[sch.fields[j].pathPtr]] :
          j \in 1..Len(sch.fields)}
       = {[off |-> e.off, path |-> e.path] :
            e \in {d \in LazyExpectedTable[t][k] : d.included}}
    /\ Len(sch.fields) =
         Cardinality({d \in LazyExpectedTable[t][k] : d.included})

\* every included wrapper field of the Lazy instance i is linked to a
\* path of the declared content
FullyLinked(i, k) ==
    \A e \in LazyExpectedTable["Lazy"][k] :
        e.included => /\ mem[i][e.off] # Nil
                      /\ heap[mem[i][e.off]] = e.path

\* no path slot of the Lazy instance i has been written
Untouched(i) == \A e \in LazyExpectedTable["Lazy"]["json"] : mem[i][e.off] = Nil
Busy(i) == \E t \in Threads : threads[t].pc # "idle" /\ threads[t].inst = i

\* the cache holds nothing but complete schemas, at most the one of the
\* type being linked; a goroutine past the Store finds the entry there
\* and links from a complete schema; an instance no goroutine is working
\* on is untouched or fully linked, and two such instances have paths of
\* equal content in corresponding fields
LazyCacheSound ==
    /\ DOMAIN genericSchemaCache \subseteq {TypeID("Lazy")}
    /\ \A id \in DOMAIN genericSchemaCache :
          CompleteSchema(genericSchemaCache[id], "Lazy", "json")
    /\ \A t \in Threads :
          threads[t].pc = "loop" =>
              /\ TypeID("Lazy") \in DOMAIN genericSchemaCache
              /\ CompleteSchema(threads[t].sch, "Lazy", "json")
    /\ \A i \in LazyInsts :
          ~Busy(i) => Untouched(i) \/ FullyLinked(i, "json")
    /\ \A i \in LazyInsts, j \in LazyInsts :
          (~Busy(i) /\ ~Busy(j) /\ ~Untouched(i) /\ ~Untouched(j)) =>
              \A e \in LazyExpectedTable["Lazy"]["json"] :
                  e.included => heap[mem[i][e.off]] = heap[mem[j][e.off]]

\* a call that returns leaves its instance fully linked and the cache
\* holding the one complete schema
ReturnsLinked ==
    \A t \in Threads :
        (threads[t].pc = "loop" /\ threads'[t].pc = "idle") =>
            /\ \A e \in LazyExpectedTable["Lazy"]["json"] :
                  e.included =>
                      /\ mem'[threads[t].inst][e.off] # Nil
                      /\ heap'[mem'[threads[t].inst][e.off]] = e.path
            /\ DOMAIN genericSchemaCache' = {TypeID("Lazy")}

\* every call that was started returns
EveryCallReturns ==
    \A t \in Threads : (threads[t].pc # "idle") ~> (threads[t].pc = "idle")

\* C26: when two goroutines concurrently perform the first lazy Link of
\* a type with the same tag key on distinct instances, in every
\* interleaving both calls complete, both instances end with every schema
\* field linked to paths of equal content, and the cache ends holding
\* exactly one complete schema of the type.
C26_ConcurrentFirstLink ==
    /\ []LazyCacheSound
    /\ [][ReturnsLinked]_vars
    /\ EveryCallReturns

\* both goroutines missed the cache and built a schema each (two sets of
\* path objects on the heap); both calls have returned, the two
\* instances are fully linked to different path objects of equal content
C26_Witness ==
    /\ \A t \in Threads : threads[t].pc = "idle"
    /\ TypeID("Lazy") \in DOMAIN genericSchemaCache
    /\ Len(heap) = 2 * Len(genericSchemaCache[TypeID("Lazy")].fields)
    /\ FullyLinked(16, "json") /\ FullyLinked(17, "json")
    /\ mem[16][0] # mem[17][0]

====
